---- MODULE Spec2Model ----
(***************************************************************************)
(* A model of the elaboration core of slang: the type relations and the    *)
(* canonical-type resolution of TypeSymbols.cpp, the declared-type         *)
(* resolver of DeclaredType.cpp, enum and packed-union construction, and   *)
(* the constant evaluator of Expressions_eval.cpp.                         *)
(*                                                                         *)
(* Each subsystem has its own variables and its own specification; a       *)
(* specification leaves the variables of the other subsystems at their     *)
(* idle value.                                                             *)
(***************************************************************************)
EXTENDS Integers, Sequences, FiniteSets, TLC

VARIABLES
    \* type relations: the two operands and the answers of one comparison
    lhs, rhs, rel, tpc,
    \* Type::resolveCanonical: the mutable `canonical` field of lhs and
    \* the number of loop iterations run so far
    canonical, iters,
    \* DeclaredType: the declarations of a scope, the fields of their
    \* declared-type records, the diagnostics issued, the call stack, whether
    \* an ASSERT has failed, and the records found on a resolution cycle
    decls, declType, declInitializer, evaluating, declDiags, declStack,
    aborted, inCycle,
    \* PackedUnionType::fromSyntax: the locals bitWidth and isFourState, the
    \* fields created, the diagnostic codes issued, the number of member
    \* declarations read, and the type returned
    unionBitWidth, unionFourState, unionFields, unionDiags, unionMembers,
    unionResult,
    \* EnumType::fromSyntax: the width of the base type, the locals first,
    \* previous and usedValues, the enumerands created (how each was declared
    \* and the value it has, if any) and the diagnostics issued
    enumWidth, first, previous, usedValues, enumerands, enumDiags,
    \* constant evaluation: the expression, the EvalContext, and the
    \* ConstantValue returned (<<>> before the evaluation)
    expr, context, evalResult,
    \* the position in CallExpression::evalImpl and its local er; the answer
    \* of verifyConstant (<<>> before it is given)
    evalPc, er, verifyResult,
    \* GenerateBlockArraySymbol::fromSyntax: the constant of the initial
    \* expression (<<>> if it has none), the stop and the iteration
    \* expression, the EvalContext holding the iteration variable, the locals
    \* usedValues and any, the blocks added to the result, the diagnostics
    \* issued and the position in the function
    initial, stopExpr, iterExpr, evalContext, usedGenvars, any, blocks, genDiags,
    genPc,
    \* GenerateBlockSymbol::fromSyntax of a case generate: the constant of
    \* the condition (<<>> if it has none), the items, the parameter
    \* isInstantiated, the number of items the second loop has passed, the
    \* locals found and warned, the blocks appended to results, the
    \* diagnostics issued and the position in the function
    caseCondition, caseItems, caseIsInstantiated, casePassed, caseFound, caseWarned,
    caseResults, caseDiags, casePc,
    \* DefinitionSymbol::fromSyntax and InstanceSymbol::fromSyntax: whether
    \* the header has a parameter port list, the keywords of the parameter
    \* declarations of the header and of the body, the parameters of the
    \* definition, the parameter assignments of the instantiation, the
    \* locals orderedAssignments, orderedParams and namedParams, the map
    \* paramOverrides, the diagnostics issued and the position
    hasPortParams, portDeclarations, bodyDeclarations, parameters, assignments,
    orderedAssignments, orderedParams, namedParams, paramOverrides, paramDiags, paramPc,
    \* PortConnectionBuilder: the connections of the instantiation, the ports
    \* of the instance, what the instantiating scope holds for each name,
    \* the members of the builder (orderedPortIndex is its orderedIndex), the
    \* connection each port has been given so far, the diagnostics issued and
    \* the position
    portConnections, ports, instanceScope, usingOrdered, orderedConns, namedConns,
    hasWildcard, wildcardRange, orderedPortIndex, warnedAboutUnnamed, connection,
    portDiags, portPc,
    \* PortConnectionBuilder::setInterface: the interface port, the symbol it
    \* is connected to, the builder's instanceDims and the arrayPath of its
    \* instance, the local symbol of the slicing loop (the positions taken in
    \* the arrays of interfaces so far), the index computed in each pass, the
    \* diagnostics issued and the position
    interfacePort, connected, instanceDims, arrayPath, sliced, indices, ifaceDiags,
    ifacePc

typeVars == <<lhs, rhs, rel, tpc>>
canonVars == <<canonical, iters>>
declVars == <<decls, declType, declInitializer, evaluating, declDiags, declStack, aborted, inCycle>>
evalVars == <<expr, context, evalResult, evalPc, er, verifyResult>>
enumVars == <<enumWidth, first, previous, usedValues, enumerands, enumDiags>>
genVars == <<initial, stopExpr, iterExpr, evalContext, usedGenvars, any, blocks, genDiags,
             genPc>>
caseVars == <<caseCondition, caseItems, caseIsInstantiated, casePassed, caseFound,
              caseWarned, caseResults, caseDiags, casePc>>
paramVars == <<hasPortParams, portDeclarations, bodyDeclarations, parameters, assignments,
               orderedAssignments, orderedParams, namedParams, paramOverrides, paramDiags,
               paramPc>>
portVars == <<portConnections, ports, instanceScope, usingOrdered, orderedConns,
              namedConns, hasWildcard, wildcardRange, orderedPortIndex,
              warnedAboutUnnamed, connection, portDiags, portPc>>
unionVars == <<unionBitWidth, unionFourState, unionFields, unionDiags, unionMembers, unionResult>>

(***************************************************************************)
(* Bounds of the model.                                                    *)
(***************************************************************************)
\* array bounds are drawn from 0..MaxIndex
MaxIndex == 1
\* syntax nodes of one kind are numbered 1..MaxSyntax
MaxSyntax == 2
\* longest chain of type aliases
MaxAliasDepth == 2
\* number of declarations with a declared-type record in the scope
MaxDecls == 3
\* member declarations of a packed union, and declarators of one of them
MaxMembers == 2
MaxDeclarators == 2
\* width of the base type of an enum, and number of its enumerands
MaxEnumWidth == 2
MaxEnumerands == 3
\* integer literals of an expression are drawn from -1 .. MaxLiteral
MaxLiteral == 4
\* a session of evaluations stops when a local has left -MaxLocal .. MaxLocal
MaxLocal == 8
\* and when the context holds more than MaxDiags diagnostics
MaxDiags == 4
MaxSymbolIndex == 2
MaxPosition == 2
MaxGenvar == 4
MaxItems == 3
MaxPortParams == 3
MaxBodyParams == 1
MaxAssignments == 2
\* port connections of an instantiation
MaxConnections == 3
\* elements of the unpacked arrays that are compared
MaxElements == 2
\* frames of an EvalContext up to which verification of a call is followed
MaxFrames == 4
\* dimensions of an array of instances
MaxDims == 2

Indices == 0 .. MaxIndex
SyntaxIds == 1 .. MaxSyntax

(***************************************************************************)
(* ConstantRange.                                                          *)
(***************************************************************************)
Abs(x) == IF x < 0 THEN -x ELSE x
Min(a, b) == IF a < b THEN a ELSE b
Max(a, b) == IF a < b THEN b ELSE a

ConstantRange(left, right) == [left |-> left, right |-> right]
width(range) == Abs(range.left - range.right) + 1
lower(range) == Min(range.left, range.right)
upper(range) == Max(range.left, range.right)
isLittleEndian(range) == range.left >= range.right
containsPoint(range, index) == index >= lower(range) /\ index <= upper(range)
translateIndex(range, index) ==
    IF isLittleEndian(range) THEN index - lower(range) ELSE upper(range) - index

(***************************************************************************)
(* Types.  A type object is a record; `syntax` is the syntax node it was   *)
(* built from (<<>> for the built-in and the cached types, which have      *)
(* none) and `elem` holds the element, base or target type, if any.        *)
(* Built-in types and the cached vector types are allocated once, so for   *)
(* them record equality is pointer equality.  Two objects built from the   *)
(* same syntax node with the same contents are not told apart by any       *)
(* relation (isMatching answers true for them at once), so they are one    *)
(* record too.                                                             *)
(***************************************************************************)
NoSyntax == <<>>
Syntax(kind, n) == <<kind, n>>

Type(kind, sub, bitWidth, isSigned, isFourState, range, syntax, elem) ==
    [kind |-> kind, sub |-> sub, bitWidth |-> bitWidth, isSigned |-> isSigned,
     isFourState |-> isFourState, range |-> range, syntax |-> syntax, elem |-> elem]

EmptyRange == ConstantRange(0, 0)

IntegerKinds == {"ShortInt", "Int", "LongInt", "Byte", "Integer", "Time"}
ScalarKinds == {"Bit", "Logic", "Reg"}
FloatKinds == {"Real", "ShortReal", "RealTime"}

getWidth(kind) ==
    CASE kind = "ShortInt" -> 16
      [] kind = "Int" -> 32
      [] kind = "LongInt" -> 64
      [] kind = "Byte" -> 8
      [] kind = "Integer" -> 32
      [] kind = "Time" -> 64

getSigned(kind) == kind # "Time"

getFourState(kind) == kind \in {"Integer", "Time"}

isAlias(t) == t.kind = "TypeAlias"

\* TypeAliasType::targetType.getType()
targetType(t) == t.elem[1]

\* A loop that stops after its first pass.
resolveCanonical_continue_never(c) == FALSE

\* The condition of the do-while loop of Type::resolveCanonical.
resolveCanonical_continue(c) == isAlias(c)

\* The do-while loop of Type::resolveCanonical, started at the alias itself.
RECURSIVE resolveCanonical(_)
resolveCanonical(t) ==
    LET next == targetType(t)
    IN  IF resolveCanonical_continue(next) THEN resolveCanonical(next) ELSE next

\* Every type but an alias is constructed with canonical = this.
getCanonicalType(t) == IF isAlias(t) THEN resolveCanonical(t) ELSE t

IntegralKinds ==
    {"PredefinedIntegerType", "ScalarType", "EnumType", "PackedArrayType",
     "PackedStructType", "PackedUnionType"}

isIntegral(t) == getCanonicalType(t).kind \in IntegralKinds
isScalar(t) == getCanonicalType(t).kind = "ScalarType"
isPredefinedInteger(t) == getCanonicalType(t).kind = "PredefinedIntegerType"
isFloating(t) == getCanonicalType(t).kind = "FloatingType"
isEnum(t) == getCanonicalType(t).kind = "EnumType"
isString(t) == getCanonicalType(t).kind = "StringType"
isError(t) == getCanonicalType(t).kind = "ErrorType"
isPackedArray(t) == getCanonicalType(t).kind = "PackedArrayType"
isUnpackedArray(t) == getCanonicalType(t).kind = "UnpackedArrayType"

getBitWidth(t) ==
    LET ct == getCanonicalType(t)
    IN  IF isIntegral(ct) THEN ct.bitWidth
        ELSE IF isFloating(ct) THEN (IF ct.sub = "ShortReal" THEN 32 ELSE 64)
        ELSE 0

isSigned(t) ==
    LET ct == getCanonicalType(t) IN isIntegral(ct) /\ ct.isSigned

RECURSIVE isFourState(_)
isFourState(t) ==
    LET ct == getCanonicalType(t)
    IN  IF isIntegral(ct) THEN ct.isFourState
        ELSE IF ct.kind = "UnpackedArrayType" THEN isFourState(ct.elem[1])
        ELSE FALSE

isSimpleBitVector(t) ==
    LET ct == getCanonicalType(t)
    IN  \/ isPredefinedInteger(ct)
        \/ isScalar(ct)
        \/ ct.kind = "PackedArrayType" /\ isScalar(ct.elem[1])

getBitVectorRange(t) ==
    IF t.kind \in {"PredefinedIntegerType", "ScalarType", "PackedStructType",
                   "PackedUnionType"}
    THEN ConstantRange(t.bitWidth - 1, 0)
    ELSE t.range

getArrayRange(type) ==
    LET t == getCanonicalType(type)
    IN  IF isIntegral(t) THEN getBitVectorRange(t)
        ELSE IF isUnpackedArray(t) THEN t.range
        ELSE EmptyRange

(***************************************************************************)
(* Constructors.                                                           *)
(***************************************************************************)
ScalarType(scalarKind, signed) ==
    Type("ScalarType", scalarKind, 1, signed, scalarKind # "Bit", EmptyRange,
         NoSyntax, <<>>)

PredefinedIntegerType(integerKind) ==
    Type("PredefinedIntegerType", integerKind, getWidth(integerKind),
         getSigned(integerKind), getFourState(integerKind), EmptyRange,
         NoSyntax, <<>>)

FloatingType(floatKind) ==
    Type("FloatingType", floatKind, 0, FALSE, FALSE, EmptyRange, NoSyntax, <<>>)

\* StringType, VoidType, NullType, CHandleType, EventType, ErrorType
BuiltinType(kind) ==
    Type(kind, "", 0, FALSE, FALSE, EmptyRange, NoSyntax, <<>>)

PackedArrayType(elementType, range, syntax) ==
    Type("PackedArrayType", "", getBitWidth(elementType) * width(range),
         isSigned(elementType), isFourState(elementType), range, syntax,
         <<elementType>>)

UnpackedArrayType(elementType, range, syntax) ==
    Type("UnpackedArrayType", "", 0, FALSE, FALSE, range, syntax,
         <<elementType>>)

EnumType(baseType, syntax) ==
    Type("EnumType", "", getBitWidth(baseType), isSigned(baseType),
         isFourState(baseType), EmptyRange, syntax, <<baseType>>)

PackedStructType(bitWidth, signed, fourState, syntax) ==
    Type("PackedStructType", "", bitWidth, signed, fourState, EmptyRange,
         syntax, <<>>)

PackedUnionType(bitWidth, signed, fourState, syntax) ==
    Type("PackedUnionType", "", bitWidth, signed, fourState, EmptyRange,
         syntax, <<>>)

UnpackedStructType(syntax) ==
    Type("UnpackedStructType", "", 0, FALSE, FALSE, EmptyRange, syntax, <<>>)

TypeAliasType(target, syntax) ==
    Type("TypeAlias", "", 0, FALSE, FALSE, EmptyRange, syntax, <<target>>)

\* Compilation::getType(width, flags): the cached vector [width-1:0] of the
\* scalar with these flags.
getVectorType(bitWidth, scalar) ==
    PackedArrayType(scalar, ConstantRange(bitWidth - 1, 0), NoSyntax)

(***************************************************************************)
(* The types the relations are compared on: every built-in type, the       *)
(* cached vectors, and types built from syntax (vectors, enums, packed     *)
(* structs and unions, arrays, typedef chains).                            *)
(***************************************************************************)
Ranges == {ConstantRange(l, r) : l \in Indices, r \in Indices}

Scalars == {ScalarType(k, s) : k \in ScalarKinds, s \in BOOLEAN}
PredefinedIntegers == {PredefinedIntegerType(k) : k \in IntegerKinds}
Floatings == {FloatingType(k) : k \in FloatKinds}
Builtins ==
    {BuiltinType(k) : k \in {"StringType", "VoidType", "NullType",
                             "CHandleType", "EventType", "ErrorType"}}

Logic == ScalarType("Logic", FALSE)
Bit == ScalarType("Bit", FALSE)
Reg == ScalarType("Reg", FALSE)
IntType == PredefinedIntegerType("Int")
StringType == BuiltinType("StringType")
ErrorType == BuiltinType("ErrorType")

\* vectors [w-1:0] of the compilation's cache, also those as wide as a
\* predefined integer (`int unsigned` is bit[31:0])
CachedVectors ==
    {getVectorType(w, s) :
        w \in (1 .. MaxIndex + 1) \cup {getWidth(k) : k \in IntegerKinds},
        s \in Scalars}

\* vectors whose dimension is not [N:0], or that came from a select or a
\* multi-dimensional declaration: one object per syntax node
DeclaredVectors ==
    {PackedArrayType(s, r, Syntax("PackedDim", n)) :
        s \in {Bit, Logic, Reg, ScalarType("Logic", TRUE)},
        r \in Ranges, n \in SyntaxIds}

Enums ==
    {EnumType(b, Syntax("Enum", n)) :
        b \in {IntType, Bit, getVectorType(2, Logic)}, n \in SyntaxIds}

PackedStructs ==
    {PackedStructType(w, FALSE, f, Syntax("Struct", n)) :
        w \in 1 .. 2, f \in BOOLEAN, n \in SyntaxIds}

PackedUnions ==
    {PackedUnionType(2, FALSE, f, Syntax("Union", n)) :
        f \in BOOLEAN, n \in SyntaxIds}

PackedElements ==
    {getVectorType(2, Logic),
     PackedArrayType(Reg, ConstantRange(0, 1), Syntax("PackedDim", 1)),
     EnumType(Bit, Syntax("Enum", 1)),
     PackedStructType(2, FALSE, TRUE, Syntax("Struct", 1))}

PackedOfPacked ==
    {PackedArrayType(e, r, Syntax("PackedDim", 1)) :
        e \in PackedElements, r \in Ranges}

UnpackedElements ==
    {Logic, Bit, IntType, FloatingType("Real"), FloatingType("RealTime"),
     StringType, getVectorType(2, Logic), EnumType(Bit, Syntax("Enum", 1))}

UnpackedArrays ==
    {UnpackedArrayType(e, r, Syntax("UnpackedDim", n)) :
        e \in UnpackedElements, r \in Ranges, n \in SyntaxIds}

UnpackedOfUnpacked ==
    {UnpackedArrayType(UnpackedArrayType(e, ConstantRange(0, 1),
                                         Syntax("UnpackedDim", 1)),
                       r, Syntax("UnpackedDim", 2)) :
        e \in {Logic, Reg, IntType}, r \in Ranges}

UnpackedStructs == {UnpackedStructType(Syntax("Struct", n)) : n \in SyntaxIds}

AliasTargets ==
    {Logic, Reg, IntType, FloatingType("Real"), StringType, ErrorType,
     getVectorType(2, Logic), EnumType(Bit, Syntax("Enum", 1)),
     UnpackedArrayType(Logic, ConstantRange(0, 1), Syntax("UnpackedDim", 1))}

\* typedef chains of exactly `depth` aliases over a target
RECURSIVE AliasChains(_)
AliasChains(depth) ==
    IF depth = 0 THEN AliasTargets
    ELSE {TypeAliasType(t, Syntax("Typedef", depth)) : t \in AliasChains(depth - 1)}

Aliases == UNION {AliasChains(d) : d \in 1 .. MaxAliasDepth}

TypeUniverse ==
    Scalars \cup PredefinedIntegers \cup Floatings \cup Builtins
        \cup CachedVectors \cup DeclaredVectors \cup Enums \cup PackedStructs
        \cup PackedUnions \cup PackedOfPacked \cup UnpackedArrays
        \cup UnpackedOfUnpacked \cup UnpackedStructs \cup Aliases

(***************************************************************************)
(* Type relations.                                                         *)
(***************************************************************************)
\* isMatching with check (e) made only when the left type is the predefined
\* integer.
RECURSIVE isMatching_predefinedOnLeft(_, _)
isMatching_predefinedOnLeft(self, other) ==
    LET l == getCanonicalType(self)
        r == getCanonicalType(other)
    IN  IF l = r \/ (l.syntax # NoSyntax /\ l.syntax = r.syntax) THEN TRUE
        ELSE IF isScalar(l) /\ isScalar(r)
        THEN l.sub \in {"Logic", "Reg"} /\ r.sub \in {"Logic", "Reg"}
        ELSE IF isFloating(l) /\ isFloating(r)
        THEN l.sub \in {"Real", "RealTime"} /\ r.sub \in {"Real", "RealTime"}
        ELSE IF /\ isSimpleBitVector(l) /\ isSimpleBitVector(r)
                /\ isPredefinedInteger(l) /\ ~isPredefinedInteger(r)
        THEN /\ l.isSigned = r.isSigned
             /\ l.isFourState = r.isFourState
             /\ getBitVectorRange(l) = getBitVectorRange(r)
        ELSE IF l.kind = "PackedArrayType" /\ r.kind = "PackedArrayType"
        THEN /\ l.range = r.range
             /\ isMatching_predefinedOnLeft(l.elem[1], r.elem[1])
        ELSE IF l.kind = "UnpackedArrayType" /\ r.kind = "UnpackedArrayType"
        THEN /\ l.range = r.range
             /\ isMatching_predefinedOnLeft(l.elem[1], r.elem[1])
        ELSE FALSE

\* isMatching without the special case for the synonyms logic and reg.
RECURSIVE isMatching_regDistinct(_, _)
isMatching_regDistinct(self, other) ==
    LET l == getCanonicalType(self)
        r == getCanonicalType(other)
    IN  IF l = r \/ (l.syntax # NoSyntax /\ l.syntax = r.syntax) THEN TRUE
        ELSE IF isFloating(l) /\ isFloating(r)
        THEN l.sub \in {"Real", "RealTime"} /\ r.sub \in {"Real", "RealTime"}
        ELSE IF /\ isSimpleBitVector(l) /\ isSimpleBitVector(r)
                /\ isPredefinedInteger(l) # isPredefinedInteger(r)
        THEN /\ l.isSigned = r.isSigned
             /\ l.isFourState = r.isFourState
             /\ getBitVectorRange(l) = getBitVectorRange(r)
        ELSE IF l.kind = "PackedArrayType" /\ r.kind = "PackedArrayType"
        THEN l.range = r.range /\ isMatching_regDistinct(l.elem[1], r.elem[1])
        ELSE IF l.kind = "UnpackedArrayType" /\ r.kind = "UnpackedArrayType"
        THEN l.range = r.range /\ isMatching_regDistinct(l.elem[1], r.elem[1])
        ELSE FALSE

RECURSIVE isMatching(_, _)
isMatching(self, other) ==
    LET l == getCanonicalType(self)
        r == getCanonicalType(other)
    IN  IF l = r \/ (l.syntax # NoSyntax /\ l.syntax = r.syntax) THEN TRUE
        ELSE IF isScalar(l) /\ isScalar(r)
        THEN l.sub \in {"Logic", "Reg"} /\ r.sub \in {"Logic", "Reg"}
        ELSE IF isFloating(l) /\ isFloating(r)
        THEN l.sub \in {"Real", "RealTime"} /\ r.sub \in {"Real", "RealTime"}
        ELSE IF /\ isSimpleBitVector(l) /\ isSimpleBitVector(r)
                /\ isPredefinedInteger(l) # isPredefinedInteger(r)
        THEN /\ l.isSigned = r.isSigned
             /\ l.isFourState = r.isFourState
             /\ getBitVectorRange(l) = getBitVectorRange(r)
        ELSE IF l.kind = "PackedArrayType" /\ r.kind = "PackedArrayType"
        THEN l.range = r.range /\ isMatching(l.elem[1], r.elem[1])
        ELSE IF l.kind = "UnpackedArrayType" /\ r.kind = "UnpackedArrayType"
        THEN l.range = r.range /\ isMatching(l.elem[1], r.elem[1])
        ELSE FALSE

\* isEquivalent without its first test, that matching types are equivalent.
RECURSIVE isEquivalent_withoutMatching(_, _)
isEquivalent_withoutMatching(self, other) ==
    LET l == getCanonicalType(self)
        r == getCanonicalType(other)
    IN  IF isIntegral(l) /\ isIntegral(r) /\ ~isEnum(l) /\ ~isEnum(r)
        THEN /\ l.isSigned = r.isSigned
             /\ l.isFourState = r.isFourState
             /\ l.bitWidth = r.bitWidth
        ELSE IF l.kind = "UnpackedArrayType" /\ r.kind = "UnpackedArrayType"
        THEN /\ width(l.range) = width(r.range)
             /\ isEquivalent_withoutMatching(l.elem[1], r.elem[1])
        ELSE FALSE

RECURSIVE isEquivalent(_, _)
isEquivalent(self, other) ==
    LET l == getCanonicalType(self)
        r == getCanonicalType(other)
    IN  IF isMatching(l, r) THEN TRUE
        ELSE IF isIntegral(l) /\ isIntegral(r) /\ ~isEnum(l) /\ ~isEnum(r)
        THEN /\ l.isSigned = r.isSigned
             /\ l.isFourState = r.isFourState
             /\ l.bitWidth = r.bitWidth
        ELSE IF l.kind = "UnpackedArrayType" /\ r.kind = "UnpackedArrayType"
        THEN /\ width(l.range) = width(r.range)
             /\ isEquivalent(l.elem[1], r.elem[1])
        ELSE FALSE

isAssignmentCompatible(self, other) ==
    LET l == getCanonicalType(self)
        r == getCanonicalType(other)
    IN  IF isEquivalent(l, r) THEN TRUE
        ELSE IF (isIntegral(l) /\ ~isEnum(l)) \/ isFloating(l)
        THEN isIntegral(r) \/ isFloating(r)
        ELSE FALSE

isCastCompatible(self, other) ==
    LET l == getCanonicalType(self)
        r == getCanonicalType(other)
    IN  IF isAssignmentCompatible(l, r) THEN TRUE
        ELSE IF isEnum(l) THEN isIntegral(r) \/ isFloating(r)
        ELSE IF isString(l) THEN isIntegral(r)
        ELSE IF isString(r) THEN isIntegral(l)
        ELSE FALSE

\* IntegralType::isDeclaredReg: the scalar under the packed dimensions is
\* `reg`.
RECURSIVE isDeclaredReg(_)
isDeclaredReg(self) ==
    IF self.kind = "PackedArrayType"
    THEN isDeclaredReg(getCanonicalType(self.elem[1]))
    ELSE IF isScalar(self) THEN self.sub = "Reg"
    ELSE FALSE

\* Type::getIntegralFlags
getIntegralFlags(self) ==
    IF ~isIntegral(self) THEN {}
    ELSE LET it == getCanonicalType(self)
         IN  (IF it.isSigned THEN {"Signed"} ELSE {})
                 \cup (IF it.isFourState THEN {"FourState"} ELSE {})
                 \cup (IF isDeclaredReg(it) THEN {"Reg"} ELSE {})

(***************************************************************************)
(* Specification of the type relations: two types of the compilation are   *)
(* compared, in both directions.                                           *)
(***************************************************************************)
NoAnswers ==
    [matching |-> FALSE, matchingRev |-> FALSE, equivalent |-> FALSE,
     equivalentRev |-> FALSE, assignmentCompatible |-> FALSE,
     castCompatible |-> FALSE, integralFlags |-> {}]

CanonIdle == canonical = <<>> /\ iters = 0

TypeInit ==
    /\ lhs \in TypeUniverse
    /\ rhs \in TypeUniverse
    /\ rel = NoAnswers
    /\ tpc = "start"

Compare ==
    /\ tpc = "start"
    /\ rel' = [matching |-> isMatching(lhs, rhs),
               matchingRev |-> isMatching(rhs, lhs),
               equivalent |-> isEquivalent(lhs, rhs),
               equivalentRev |-> isEquivalent(rhs, lhs),
               assignmentCompatible |-> isAssignmentCompatible(lhs, rhs),
               castCompatible |-> isCastCompatible(lhs, rhs),
               integralFlags |-> getIntegralFlags(lhs)]
    /\ tpc' = "compared"
    /\ UNCHANGED <<lhs, rhs>>

\* no comparison and no resolution is under way
TypeIdle ==
    /\ lhs = ErrorType
    /\ rhs = ErrorType
    /\ rel = NoAnswers
    /\ tpc = "idle"
    /\ CanonIdle

(***************************************************************************)
(* Specification of canonical-type resolution: Type::getCanonicalType is   *)
(* called on lhs, its loop runs one pass per step, and the result is       *)
(* canonicalised once more (into rhs).                                     *)
(***************************************************************************)
RECURSIVE aliasDepth(_)
aliasDepth(t) == IF isAlias(t) THEN 1 + aliasDepth(targetType(t)) ELSE 0

CanonInit ==
    /\ lhs \in TypeUniverse
    /\ rhs = ErrorType
    /\ rel = NoAnswers
    /\ tpc = "start"
    \* TypeAliasType's constructor resets canonical to nullptr
    /\ canonical = IF isAlias(lhs) THEN <<>> ELSE <<lhs>>
    /\ iters = 0

\* getCanonicalType: canonical is null, resolveCanonical starts at `this`
ResolveCanonicalEnter ==
    /\ tpc = "start"
    /\ canonical = <<>>
    /\ canonical' = <<lhs>>
    /\ tpc' = "resolving"
    /\ UNCHANGED <<lhs, rhs, rel, iters>>

\* one pass of the do-while loop
ResolveCanonicalLoop ==
    /\ tpc = "resolving"
    /\ canonical' = <<targetType(canonical[1])>>
    /\ iters' = iters + 1
    /\ tpc' = IF resolveCanonical_continue(canonical'[1]) THEN "resolving"
              ELSE "resolved"
    /\ UNCHANGED <<lhs, rhs, rel>>

\* getCanonicalType: canonical is set, nothing to resolve
CanonicalKnown ==
    /\ tpc = "start"
    /\ canonical # <<>>
    /\ tpc' = "resolved"
    /\ UNCHANGED <<lhs, rhs, rel, canonical, iters>>

\* the canonical type of the result
CanonicalOfCanonical ==
    /\ tpc = "resolved"
    /\ rhs' = getCanonicalType(canonical[1])
    /\ tpc' = "done"
    /\ UNCHANGED <<lhs, rel, canonical, iters>>

CanonNext ==
    \/ ResolveCanonicalEnter
    \/ ResolveCanonicalLoop
    \/ CanonicalKnown
    \/ CanonicalOfCanonical

(***************************************************************************)
(* DeclaredType.  A scope declares MaxDecls parameters; the type syntax of *)
(* each is implicit (the type is inferred from the initializer) or         *)
(* explicit, and its initializer is absent, a literal, or the name of a    *)
(* parameter of the scope.  Calls are kept on an explicit stack of frames  *)
(* [sym, fn, pc].                                                          *)
(***************************************************************************)
DeclIds == 1 .. MaxDecls
\* initializer syntax: absent, a literal, or (1 .. MaxDecls) a name
NoInitializer == 0 - 1
Literal == 0

\* a declaration: is the type syntax ImplicitType, the initializer syntax,
\* and the dimension syntax, of which a declaration has none at first
Declarations ==
    [implicit : {TRUE}, init : {NoInitializer, Literal} \cup DeclIds,
     dimensions : {NoSyntax}]
        \cup [implicit : {FALSE}, init : {Literal} \cup DeclIds, dimensions : {NoSyntax}]

\* if (dimensions) type = &comp.getType(*type, *dimensions, ...)
withDimensions(t, dimensions) ==
    IF dimensions = NoSyntax THEN t
    ELSE UnpackedArrayType(t, ConstantRange(0, 1), dimensions)

Frame(sym, fn, pc) == [sym |-> sym, fn |-> fn, pc |-> pc]
Top(stack) == stack[Len(stack)]
Pop(stack) == SubSeq(stack, 1, Len(stack) - 1)
SetTop(stack, frame) == [stack EXCEPT ![Len(stack)] = frame]

\* the ScopeGuard that never resets the flag
ScopeGuard_keepsFlag(flags, sym) == flags

\* auto guard = ScopeGuard([this] { evaluating = false; });
ScopeGuard(flags, sym) == [flags EXCEPT ![sym] = FALSE]

\* the bound initializer: "bad" when its type is the error type
BoundExpression(t) == IF isError(t) THEN "bad" ELSE "ok"

DeclIdle ==
    /\ decls = <<>>
    /\ declType = <<>>
    /\ declInitializer = <<>>
    /\ evaluating = <<>>
    /\ declDiags = <<>>
    /\ declStack = <<>>
    /\ aborted = FALSE
    /\ inCycle = {}

DeclInit ==
    /\ decls \in [DeclIds -> Declarations]
    /\ declType = [i \in DeclIds |-> <<>>]
    /\ declInitializer = [i \in DeclIds |-> "null"]
    /\ evaluating = [i \in DeclIds |-> FALSE]
    /\ declDiags = <<>>
    /\ declStack = <<>>
    /\ aborted = FALSE
    /\ inCycle = {}

\* DeclaredType::getType, called from outside on a record not yet resolved
GetType(i) ==
    /\ declStack = <<>>
    /\ ~aborted
    /\ declType[i] = <<>>
    /\ declStack' = <<Frame(i, "resolveType", "enter")>>
    /\ UNCHANGED <<decls, declType, declInitializer, evaluating, declDiags, aborted, inCycle>>

\* DeclaredType::getInitializer, called from outside: resolveAt runs when no
\* initializer is bound yet
GetInitializer(i) ==
    /\ declStack = <<>>
    /\ ~aborted
    /\ declInitializer[i] = "null"
    /\ declStack' = <<Frame(i, "resolveAt", "enter")>>
    /\ UNCHANGED <<decls, declType, declInitializer, evaluating, declDiags, aborted, inCycle>>

\* DeclaredType::resolveType up to the binding of the initializer
ResolveTypeEnter ==
    /\ declStack # <<>> /\ ~aborted
    /\ Top(declStack).fn = "resolveType" /\ Top(declStack).pc = "enter"
    /\ LET i == Top(declStack).sym
       IN  IF evaluating[i]
           THEN \* ASSERT(!evaluating) fails
                /\ aborted' = TRUE
                /\ UNCHANGED <<declType, declInitializer, evaluating, declStack>>
           ELSE IF ~decls[i].implicit
           THEN \* the type comes from the type syntax alone
                /\ declType' = [declType EXCEPT
                                    ![i] = <<withDimensions(IntType, decls[i].dimensions)>>]
                /\ evaluating' = ScopeGuard([evaluating EXCEPT ![i] = TRUE], i)
                /\ declStack' = Pop(declStack)
                /\ UNCHANGED <<declInitializer, aborted>>
           ELSE IF decls[i].init = NoInitializer
           THEN /\ declType' = [declType EXCEPT ![i] = <<ErrorType>>]
                /\ evaluating' = ScopeGuard([evaluating EXCEPT ![i] = TRUE], i)
                /\ declStack' = Pop(declStack)
                /\ UNCHANGED <<declInitializer, aborted>>
           ELSE /\ evaluating' = [evaluating EXCEPT ![i] = TRUE]
                /\ declStack' = SetTop(declStack, Frame(i, "resolveType", "bind"))
                /\ UNCHANGED <<declType, declInitializer, aborted>>
    /\ UNCHANGED <<decls, declDiags, inCycle>>

\* DeclaredType::resolveAt up to the call of resolveType
ResolveAtEnter ==
    /\ declStack # <<>> /\ ~aborted
    /\ Top(declStack).fn = "resolveAt" /\ Top(declStack).pc = "enter"
    /\ LET i == Top(declStack).sym
       IN  IF decls[i].init = NoInitializer
           THEN declStack' = Pop(declStack)
           ELSE IF declType[i] = <<>>
           THEN declStack' = SetTop(declStack, Frame(i, "resolveAt", "typed"))
                                \o <<Frame(i, "resolveType", "enter")>>
           ELSE declStack' = SetTop(declStack, Frame(i, "resolveAt", "guard"))
    /\ UNCHANGED <<decls, declType, declInitializer, evaluating, declDiags, aborted, inCycle>>

\* DeclaredType::resolveAt after resolveType has returned, and its guard
ResolveAtGuard ==
    /\ declStack # <<>> /\ ~aborted
    /\ Top(declStack).fn = "resolveAt" /\ Top(declStack).pc \in {"typed", "guard"}
    /\ LET i == Top(declStack).sym
       IN  IF Top(declStack).pc = "typed" /\ declInitializer[i] # "null"
           THEN /\ declStack' = Pop(declStack)
                /\ UNCHANGED <<evaluating, aborted>>
           ELSE IF evaluating[i]
           THEN \* ASSERT(!evaluating) fails
                /\ aborted' = TRUE
                /\ UNCHANGED <<evaluating, declStack>>
           ELSE /\ evaluating' = [evaluating EXCEPT ![i] = TRUE]
                /\ declStack' = SetTop(declStack, Frame(i, "resolveAt", "bind"))
                /\ UNCHANGED aborted
    /\ UNCHANGED <<decls, declType, declInitializer, declDiags, inCycle>>

\* the name lookup of the binder finds a symbol whose declared type is being
\* resolved
isEvaluating(sym) == evaluating[sym]

\* the records from the one requested again up to the one requesting it
CycleOf(stack, sym) ==
    LET start == CHOOSE k \in 1 .. Len(stack) :
                     /\ stack[k].sym = sym
                     /\ \A m \in 1 .. k - 1 : stack[m].sym # sym
    IN  {stack[m].sym : m \in start .. Len(stack)}

\* the end of resolveType and resolveAt: the bound initializer is stored, in
\* resolveType its type becomes the type of the record, and the guard runs
FinishBind(i, fn, t) ==
    /\ declInitializer' = [declInitializer EXCEPT ![i] = BoundExpression(t)]
    /\ declType' = IF fn = "resolveType" THEN [declType EXCEPT ![i] = <<t>>]
                   ELSE declType
    /\ evaluating' = ScopeGuard(evaluating, i)
    /\ declStack' = Pop(declStack)

\* Expression::bind of an initializer that names a record under resolution:
\* the lookup issues RecursiveDefinition and the expression is bad
BindRecursive ==
    /\ declStack # <<>> /\ ~aborted
    /\ Top(declStack).pc = "bind"
    /\ LET i == Top(declStack).sym
           j == decls[i].init
       IN  /\ j \in DeclIds
           /\ isEvaluating(j)
           /\ declDiags' = Append(declDiags, j)
           /\ inCycle' = inCycle \cup CycleOf(declStack, j)
           /\ FinishBind(i, Top(declStack).fn, ErrorType)
    /\ UNCHANGED <<decls, aborted>>

\* Expression::bind of an initializer that names a record not yet resolved:
\* the type of the named value is requested with getType
BindRequestsType ==
    /\ declStack # <<>> /\ ~aborted
    /\ Top(declStack).pc = "bind"
    /\ LET j == decls[Top(declStack).sym].init
       IN  /\ j \in DeclIds
           /\ ~isEvaluating(j)
           /\ declType[j] = <<>>
           /\ declStack' = Append(declStack, Frame(j, "resolveType", "enter"))
    /\ UNCHANGED <<decls, declType, declInitializer, evaluating, declDiags, aborted, inCycle>>

\* Expression::bind of a literal, or of the name of a resolved record
BindInitializer ==
    /\ declStack # <<>> /\ ~aborted
    /\ Top(declStack).pc = "bind"
    /\ LET i == Top(declStack).sym
           j == decls[i].init
       IN  \/ /\ j = Literal
              /\ FinishBind(i, Top(declStack).fn, IntType)
           \/ /\ j \in DeclIds
              /\ ~isEvaluating(j)
              /\ declType[j] # <<>>
              /\ FinishBind(i, Top(declStack).fn, declType[j][1])
    /\ UNCHANGED <<decls, declDiags, aborted, inCycle>>

(***************************************************************************)
(* Resets of a declared type between the queries: the declarations have    *)
(* no initializer or a literal, and their dimension syntax is replaced and *)
(* their resolved state cleared when no resolution is under way.           *)
(***************************************************************************)
NewDimensions == {Syntax("dim", 1)}

DeclResetInit ==
    /\ decls \in [DeclIds -> {d \in Declarations : d.init \in {NoInitializer, Literal}}]
    /\ declType = [i \in DeclIds |-> <<>>]
    /\ declInitializer = [i \in DeclIds |-> "null"]
    /\ evaluating = [i \in DeclIds |-> FALSE]
    /\ declDiags = <<>>
    /\ declStack = <<>>
    /\ aborted = FALSE
    /\ inCycle = {}

\* DeclaredType::setDimensionSyntax
SetDimensionSyntax(i, newDimensions) ==
    /\ declStack = <<>>
    /\ ~aborted
    /\ decls' = [decls EXCEPT ![i].dimensions = newDimensions]
    /\ declType' = [declType EXCEPT ![i] = <<>>]
    /\ UNCHANGED <<declInitializer, evaluating, declDiags, declStack, aborted, inCycle>>

\* DeclaredType::clearResolved
ClearResolved(i) ==
    /\ declStack = <<>>
    /\ ~aborted
    /\ declType' = [declType EXCEPT ![i] = <<>>]
    /\ declInitializer' = [declInitializer EXCEPT ![i] = "null"]
    /\ UNCHANGED <<decls, evaluating, declDiags, declStack, aborted, inCycle>>

DeclNext ==
    \/ \E i \in DeclIds : GetType(i)
    \/ \E i \in DeclIds : GetInitializer(i)
    \/ ResolveTypeEnter
    \/ ResolveAtEnter
    \/ ResolveAtGuard
    \/ BindRecursive
    \/ BindRequestsType
    \/ BindInitializer

(***************************************************************************)
(* PackedUnionType::fromSyntax.  One step reads one member declaration     *)
(* (a type and its declarators); the last step builds the result.          *)
(***************************************************************************)
MemberTypes ==
    {Bit, Logic, getVectorType(2, Logic), IntType, FloatingType("Real"),
     StringType, ErrorType}

\* a declarator: has it unpacked dimensions, has it an initializer
Declarators ==
    {[unpacked |-> FALSE, initializer |-> FALSE],
     [unpacked |-> TRUE, initializer |-> FALSE],
     [unpacked |-> FALSE, initializer |-> TRUE]}

DeclaratorLists == UNION {[1 .. n -> Declarators] : n \in 1 .. MaxDeclarators}

PackedDimensions == {"none", "valid", "invalid"}

\* a width check that never reports
widthMismatch_never(bitWidth, typeWidth, issuedError) == FALSE

\* else if (bitWidth != type.getBitWidth() && !issuedError)
widthMismatch(bitWidth, typeWidth, issuedError) ==
    bitWidth # typeWidth /\ ~issuedError

\* the loop over the declarators of one member, from declarator n on; st holds
\* bitWidth, issuedError, the fields and the diagnostics
RECURSIVE declaratorLoop(_, _, _, _)
declaratorLoop(st, type, declarators, n) ==
    IF n > Len(declarators) THEN st
    ELSE LET decl == declarators[n]
             notIntegral == decl.unpacked /\ ~st.issuedError
             issued1 == st.issuedError \/ notIntegral
             mismatch == st.bitWidth # 0
                             /\ widthMismatch(st.bitWidth, getBitWidth(type), issued1)
         IN  declaratorLoop(
                 [bitWidth |-> IF st.bitWidth = 0 THEN getBitWidth(type)
                               ELSE st.bitWidth,
                  issuedError |-> issued1 \/ mismatch,
                  fields |-> Append(st.fields, type),
                  diags |-> st.diags
                      \cup (IF notIntegral THEN {"PackedMemberNotIntegral"} ELSE {})
                      \cup (IF mismatch THEN {"PackedUnionWidthMismatch"} ELSE {})
                      \cup (IF decl.initializer THEN {"PackedMemberHasInitializer"}
                            ELSE {})],
                 type, declarators, n + 1)

UnionIdle ==
    /\ unionBitWidth = 0
    /\ unionFourState = FALSE
    /\ unionFields = <<>>
    /\ unionDiags = {}
    /\ unionMembers = 0
    /\ unionResult = <<>>

\* one pass of the loop over syntax.members
UnionMember(type, declarators) ==
    /\ unionResult = <<>>
    /\ unionMembers < MaxMembers
    /\ LET notIntegral == ~isIntegral(type) /\ ~isError(type)
           st == declaratorLoop(
                     [bitWidth |-> unionBitWidth, issuedError |-> notIntegral,
                      fields |-> unionFields,
                      diags |-> unionDiags \cup
                          (IF notIntegral THEN {"PackedMemberNotIntegral"} ELSE {})],
                     type, declarators, 1)
       IN  /\ unionBitWidth' = st.bitWidth
           /\ unionFourState' = (unionFourState \/ isFourState(type))
           /\ unionFields' = st.fields
           /\ unionDiags' = st.diags
    /\ unionMembers' = unionMembers + 1
    /\ UNCHANGED unionResult

\* after the loop: the error type for a zero width or an invalid dimension,
\* else the union, wrapped in packed arrays if the syntax has dimensions
UnionFinish(signed, dimensions) ==
    /\ unionResult = <<>>
    /\ unionMembers > 0
    /\ unionResult' =
           IF unionBitWidth = 0 \/ dimensions = "invalid" THEN <<ErrorType>>
           ELSE LET unionType == PackedUnionType(unionBitWidth, signed, unionFourState,
                                                 Syntax("Union", 1))
                IN  IF dimensions = "none" THEN <<unionType>>
                    ELSE <<PackedArrayType(unionType, ConstantRange(1, 0),
                                           Syntax("PackedDim", 1))>>
    /\ UNCHANGED <<unionBitWidth, unionFourState, unionFields, unionDiags, unionMembers>>

(***************************************************************************)
(* EnumType::fromSyntax.  The base type is a simple bit vector of          *)
(* enumWidth bits.  An SVInt of that width is its bit pattern, or unknown  *)
(* when it has x or z bits, or wider than 32 bits.  One step creates one enumerand, with          *)
(* setInitializer or with inferValue; a member with a range creates its    *)
(* enumerands by the same two calls.                                       *)
(***************************************************************************)
RECURSIVE Pow2(_)
Pow2(n) == IF n = 0 THEN 1 ELSE 2 * Pow2(n - 1)

\* exceedsInt32 marks a known value that does not fit 32 bits
SVInt(bits) == [bits |-> bits, hasUnknown |-> FALSE, exceedsInt32 |-> FALSE]
UnknownSVInt == [bits |-> 0, hasUnknown |-> TRUE, exceedsInt32 |-> FALSE]
WideSVInt == [bits |-> 0, hasUnknown |-> FALSE, exceedsInt32 |-> TRUE]
SVInts(w) == {SVInt(b) : b \in 0 .. Pow2(w) - 1} \cup {UnknownSVInt}

\* SVInt allOnes(cb->getBitWidth(), 0, cb->isSigned()); allOnes.setAllOnes();
allOnes(w) == SVInt(Pow2(w) - 1)
\* previous + one, in the width of the base type
plusOne(value, w) == SVInt((value.bits + 1) % Pow2(w))

\* an overflow check that never reports
overflows_never(value, w) == FALSE

\* else if (previous == allOnes)
overflows(value, w) == value = allOnes(w)

Enumerand(kind, value) == [kind |-> kind, value |-> value]
EnumDiag(code, index) == [code |-> code, index |-> index]

EnumIdle ==
    /\ enumWidth = 0
    /\ first = TRUE
    /\ previous = SVInt(0)
    /\ usedValues = {}
    /\ enumerands = <<>>
    /\ enumDiags = <<>>

EnumInit ==
    /\ enumWidth \in 1 .. MaxEnumWidth
    /\ first = TRUE
    /\ previous = SVInt(0)
    /\ usedValues = {}
    /\ enumerands = <<>>
    /\ enumDiags = <<>>

\* setInitializer: cv is the constant value of the initializer, <<>> when it
\* is invalid
setInitializer(cv) ==
    /\ Len(enumerands) < MaxEnumerands
    /\ enumerands' = Append(enumerands, Enumerand("initializer", cv))
    /\ IF cv = <<>>
       THEN UNCHANGED <<first, previous, usedValues, enumDiags>>
       ELSE /\ first' = FALSE
            /\ previous' = cv[1]
            \* checkValue
            /\ usedValues' = usedValues \cup {cv[1]}
            /\ enumDiags' = IF cv[1] \in usedValues
                            THEN Append(enumDiags, EnumDiag("EnumValueDuplicate",
                                                            Len(enumerands) + 1))
                            ELSE enumDiags
    /\ UNCHANGED enumWidth

inferValue ==
    /\ Len(enumerands) < MaxEnumerands
    /\ LET index == Len(enumerands) + 1
           value == IF first THEN SVInt(0) ELSE plusOne(previous, enumWidth)
           fail(code) ==
               /\ enumDiags' = Append(enumDiags, EnumDiag(code, index))
               /\ enumerands' = Append(enumerands, Enumerand("inferred", <<>>))
               /\ UNCHANGED <<first, previous, usedValues>>
       IN  IF ~first /\ previous.hasUnknown THEN fail("EnumIncrementUnknown")
           ELSE IF ~first /\ overflows(previous, enumWidth)
           THEN fail("EnumValueOverflow")
           ELSE IF value \in usedValues
           THEN \* checkValue fails; first has been cleared
                /\ enumDiags' = Append(enumDiags, EnumDiag("EnumValueDuplicate", index))
                /\ enumerands' = Append(enumerands, Enumerand("inferred", <<>>))
                /\ first' = FALSE
                /\ UNCHANGED <<previous, usedValues>>
           ELSE /\ enumerands' = Append(enumerands, Enumerand("inferred", <<value>>))
                /\ usedValues' = usedValues \cup {value}
                /\ previous' = value
                /\ first' = FALSE
                /\ UNCHANGED enumDiags
    /\ UNCHANGED enumWidth

(***************************************************************************)
(* Constant evaluation (Expressions_eval.cpp).  A ConstantValue is         *)
(* invalid, an integer (SVInt), a string (a sequence of characters) or the *)
(* elements of an unpacked array.  An expression is a record: its kind,    *)
(* operator, type, operands, and for a named value its symbol, for a       *)
(* literal its value; `constant` is the value stored by the binder, if any.*)
(***************************************************************************)
ConstantValue(tag, integer, str, elements) ==
    [tag |-> tag, integer |-> integer, str |-> str, elements |-> elements]
Invalid == ConstantValue("invalid", SVInt(0), <<>>, <<>>)
IntegerValue(v) == ConstantValue("integer", v, <<>>, <<>>)
StringValue(chars) == ConstantValue("string", SVInt(0), chars, <<>>)
UnpackedValue(elements) == ConstantValue("unpacked", SVInt(0), <<>>, elements)
isInvalid(cv) == cv.tag = "invalid"

\* SVInt::as<int32_t>: no value for unknown bits or a value out of range
asInt32(v) == IF v.hasUnknown \/ v.exceedsInt32 THEN <<>> ELSE <<v.bits>>
\* conversion of an SVInt to logic_t
isTrue(cv) == /\ cv.tag = "integer" /\ ~cv.integer.hasUnknown
              /\ (cv.integer.bits # 0 \/ cv.integer.exceedsInt32)
isFalse(cv) == /\ cv.tag = "integer" /\ ~cv.integer.hasUnknown
               /\ cv.integer.bits = 0 /\ ~cv.integer.exceedsInt32
Bool(b) == IntegerValue(SVInt(IF b THEN 1 ELSE 0))

\* SVInt::slice(msb, lsb) of a non-negative value
slice(v, msb, lsb) ==
    IF v.hasUnknown THEN UnknownSVInt
    ELSE SVInt((v.bits \div Pow2(lsb)) % Pow2(msb - lsb + 1))

\* ConstantValue::getSlice(upper, lower)
getSlice(cv, hi, lo) ==
    IF cv.tag = "integer" THEN IntegerValue(slice(cv.integer, hi, lo))
    ELSE IF cv.tag = "string" THEN IntegerValue(SVInt(cv.str[lo + 1]))
    ELSE IF cv.tag = "unpacked" THEN UnpackedValue(SubSeq(cv.elements, lo + 1, hi + 1))
    ELSE Invalid

\* ConstantValue::convertToInt to a two-state 32-bit type
convertToInt(cv) ==
    IF cv.tag # "integer" THEN cv
    ELSE IF cv.integer.hasUnknown THEN IntegerValue(SVInt(0))
    ELSE IntegerValue(SVInt(cv.integer.bits))

\* A symbol: for a value its kind, name and value and whether its parent
\* scope is a Definition; `isHierarchical` is the flag of the expression
\* that names it.  `parents` are the scopes around its declaration,
\* innermost first, `index` its position in the innermost one, `unit` its
\* compilation unit and `position` its place in that unit.  A subroutine
\* has formal arguments, a return value variable (named as the subroutine)
\* and a body.
Symbol(kind, name, inDefinition, value, isHierarchical) ==
    [kind |-> kind, name |-> name, inDefinition |-> inDefinition, value |-> value,
     isHierarchical |-> isHierarchical, parents |-> <<>>, index |-> 0, unit |-> 0,
     position |-> 0, arguments |-> <<>>, body |-> <<>>]
NoSymbol == Symbol("None", "", FALSE, Invalid, FALSE)

Expression(kind, op, type, operands, symbol, value, constant) ==
    [kind |-> kind, op |-> op, type |-> type, operands |-> operands,
     symbol |-> symbol, value |-> value, constant |-> constant,
     lookupLocation |-> [scope |-> "", index |-> 0]]
bad(e) == e.kind = "Invalid" \/ isError(e.type)

IntegerLiteral(v) ==
    Expression("IntegerLiteral", "", IntType, <<>>, NoSymbol, v, <<>>)
NamedValueExpression(symbol, type) ==
    Expression("NamedValue", "", type, <<>>, symbol, SVInt(0), <<>>)
UnaryExpression(op, operand) ==
    Expression("UnaryOp", op, IntType, <<operand>>, NoSymbol, SVInt(0), <<>>)
BinaryExpression(op, left, right) ==
    Expression("BinaryOp", op, IntType, <<left, right>>, NoSymbol, SVInt(0), <<>>)
ConditionalExpression(pred, left, right) ==
    Expression("ConditionalOp", "", IntType, <<pred, left, right>>, NoSymbol,
               SVInt(0), <<>>)
ElementSelectExpression(type, value, selector) ==
    Expression("ElementSelect", "", type, <<value, selector>>, NoSymbol, SVInt(0), <<>>)
RangeSelectExpression(selectionKind, type, value, left, right) ==
    Expression("RangeSelect", selectionKind, type, <<value, left, right>>, NoSymbol,
               SVInt(0), <<>>)
\* op is "" for a plain assignment and the binary operator of a compound one
AssignmentExpression(op, left, right) ==
    Expression("Assignment", op, IntType, <<left, right>>, NoSymbol, SVInt(0), <<>>)
\* a call of a user subroutine from the lookup location (scope, index)
CallExpression(subroutine, arguments, scope, index) ==
    [Expression("Call", "", IntType, arguments, subroutine, SVInt(0), <<>>)
         EXCEPT !.lookupLocation = [scope |-> scope, index |-> index]]
ConversionExpression(operand) ==
    Expression("Conversion", "", IntType, <<operand>>, NoSymbol, SVInt(0), <<>>)
DataTypeExpression ==
    Expression("DataType", "", IntType, <<>>, NoSymbol, SVInt(0), <<>>)
InvalidExpression ==
    Expression("Invalid", "", ErrorType, <<>>, NoSymbol, SVInt(0), <<>>)

\* A frame of the EvalContext: the subroutine called (<<>> in the bottom
\* frame) and the lookup location of the call, which is a scope and an
\* index in it (no scope in the bottom frame); scopeSymbol is the symbol of
\* that scope, with its compilation unit and its position there
EvalFrame(subroutine, scope, index) ==
    [subroutine |-> subroutine, scope |-> scope, index |-> index,
     scopeSymbol |-> [unit |-> 0, position |-> 0]]
NoFrame == EvalFrame(<<>>, "", 0)

\* EvalContext: the diagnostics recorded, whether this is a script
\* evaluation, the top frame with its locals, and below it the frames of
\* the callers
EvalContext(isScriptEval, locals) ==
    [diags |-> <<>>, isScriptEval |-> isScriptEval, locals |-> locals,
     frame |-> NoFrame, stack |-> <<>>]
addDiag(ctx, code) == [ctx EXCEPT !.diags = Append(@, code)]
Result(cv, ctx) == [cv |-> cv, ctx |-> ctx]

\* getIndexedRange: the range of [l +: r] or [l -: r]
getIndexedRange(selectionKind, l, r, littleEndian) ==
    LET count == r - 1
        result == IF selectionKind = "IndexedUp" THEN ConstantRange(l + count, l)
                  ELSE ConstantRange(l, l - count)
    IN  IF littleEndian THEN result ELSE ConstantRange(result.right, result.left)

\* checkArrayIndex without its diagnostic for an array
checkArrayIndex_silent(ctx, type, cs, str) ==
    LET index == asInt32(cs.integer)
        range == getArrayRange(type)
    IN  IF index # <<>> /\ isString(type)
        THEN IF index[1] < 0 \/ index[1] >= Len(str)
             THEN [ok |-> FALSE, result |-> 0,
                   ctx |-> addDiag(ctx, "NoteStringIndexInvalid")]
             ELSE [ok |-> TRUE, result |-> index[1], ctx |-> ctx]
        ELSE IF index = <<>> \/ ~containsPoint(range, index[1])
        THEN [ok |-> FALSE, result |-> 0, ctx |-> ctx]
        ELSE [ok |-> TRUE, result |-> translateIndex(range, index[1]), ctx |-> ctx]

\* checkArrayIndex; the answer is the translated index, or none
checkArrayIndex(ctx, type, cs, str) ==
    LET index == asInt32(cs.integer)
        range == getArrayRange(type)
    IN  IF index # <<>> /\ isString(type)
        THEN IF index[1] < 0 \/ index[1] >= Len(str)
             THEN [ok |-> FALSE, result |-> 0,
                   ctx |-> addDiag(ctx, "NoteStringIndexInvalid")]
             ELSE [ok |-> TRUE, result |-> index[1], ctx |-> ctx]
        ELSE IF index = <<>> \/ ~containsPoint(range, index[1])
        THEN [ok |-> FALSE, result |-> 0, ctx |-> addDiag(ctx, "NoteArrayIndexInvalid")]
        ELSE [ok |-> TRUE, result |-> translateIndex(range, index[1]), ctx |-> ctx]

\* a dereference of an optional: without a value the read is undefined and
\* yields whatever the storage holds
deref(optional, garbage) == IF optional = <<>> THEN garbage ELSE optional[1]

\* if (!valueRange.containsPoint(result.left) || ...right)
outOfRange(valueRange, result) ==
    ~containsPoint(valueRange, result.left) \/ ~containsPoint(valueRange, result.right)

\* RangeSelectExpression::getRange; the answer is the bit or element range to
\* take, or none
getRange(e, ctx, cl, cr, garbage) ==
    LET valueType == e.operands[1].type
        valueRange == getArrayRange(valueType)
        l == asInt32(cl.integer)
        r == asInt32(cr.integer)
        result == IF e.op = "Simple" THEN getArrayRange(e.type)
                  ELSE getIndexedRange(e.op, deref(l, garbage), deref(r, garbage),
                                       isLittleEndian(valueRange))
        ordered == IF isLittleEndian(result) THEN result
                   ELSE ConstantRange(result.right, result.left)
        translated == ConstantRange(translateIndex(valueRange, ordered.left),
                                    translateIndex(valueRange, ordered.right))
        elemWidth == IF isPackedArray(valueType)
                     THEN getBitWidth(getCanonicalType(valueType).elem[1]) ELSE 1
    IN  IF e.op # "Simple" /\ l = <<>>
        THEN [ok |-> FALSE, range |-> EmptyRange,
              ctx |-> addDiag(ctx, "NoteArrayIndexInvalid")]
        ELSE IF outOfRange(valueRange, result)
        THEN [ok |-> FALSE, range |-> EmptyRange,
              ctx |-> addDiag(ctx, "NotePartSelectInvalid")]
        ELSE IF ~isPackedArray(valueType)
        THEN [ok |-> TRUE, range |-> translated, ctx |-> ctx]
        ELSE [ok |-> TRUE,
              range |-> ConstantRange(translated.left * elemWidth + elemWidth - 1,
                                      translated.right * elemWidth),
              ctx |-> ctx]

\* SVInt arithmetic, as far as the evaluator needs it
svAdd(l, r) ==
    IF l.hasUnknown \/ r.hasUnknown THEN UnknownSVInt
    ELSE IF l.exceedsInt32 \/ r.exceedsInt32 THEN WideSVInt
    ELSE SVInt(l.bits + r.bits)
svEqual(l, r) ==
    IF l.hasUnknown \/ r.hasUnknown THEN UnknownSVInt
    ELSE SVInt(IF l = r THEN 1 ELSE 0)
\* l < r of two signed values
svLess(l, r) ==
    IF l.hasUnknown \/ r.hasUnknown THEN UnknownSVInt
    ELSE IF l.exceedsInt32 \/ r.exceedsInt32 THEN SVInt(IF r.exceedsInt32 THEN 1 ELSE 0)
    ELSE SVInt(IF l.bits < r.bits THEN 1 ELSE 0)
\* exactlyEqual: the bit patterns are the same, unknown bits included
exactlyEqual(l, r) == l = r
svLogical(op, l, r) ==
    LET lt == isTrue(IntegerValue(l))   lf == isFalse(IntegerValue(l))
        rt == isTrue(IntegerValue(r))   rf == isFalse(IntegerValue(r))
    IN  CASE op = "LogicalAnd" ->
                 IF lf \/ rf THEN SVInt(0) ELSE IF lt /\ rt THEN SVInt(1)
                 ELSE UnknownSVInt
          [] op = "LogicalOr" ->
                 IF lt \/ rt THEN SVInt(1) ELSE IF lf /\ rf THEN SVInt(0)
                 ELSE UnknownSVInt
          [] OTHER ->
                 IF lf \/ rt THEN SVInt(1) ELSE IF lt /\ rf THEN SVInt(0)
                 ELSE UnknownSVInt
\* SVInt::conditional
svConditional(l, r) == IF l = r THEN l ELSE UnknownSVInt

\* l != r
svNotEqual(l, r) ==
    IF l.hasUnknown \/ r.hasUnknown THEN UnknownSVInt
    ELSE SVInt(IF l = r THEN 0 ELSE 1)

RECURSIVE evalBinaryOperator(_, _, _)
RECURSIVE evalUnpacked(_, _, _, _)

\* the loop of evalBinaryOperator over the elements of two unpacked arrays,
\* after the operator gave `result` for the elements i
elementResult(op, la, ra, i, result) ==
    IF isInvalid(result) THEN Invalid
    ELSE IF result.integer.hasUnknown THEN IntegerValue(UnknownSVInt)
    ELSE IF isFalse(result) THEN IntegerValue(SVInt(0))
    ELSE evalUnpacked(op, la, ra, i + 1)

\* the loop from element i on
evalUnpacked(op, la, ra, i) ==
    IF i > Len(la) THEN IntegerValue(SVInt(1))
    ELSE elementResult(op, la, ra, i, evalBinaryOperator(op, la[i], ra[i]))

evalBinaryOperator(op, cvl, cvr) ==
    IF isInvalid(cvl) \/ isInvalid(cvr) THEN Invalid
    ELSE IF cvl.tag = "unpacked" THEN evalUnpacked(op, cvl.elements, cvr.elements, 1)
    ELSE CASE op = "Add" -> IntegerValue(svAdd(cvl.integer, cvr.integer))
           [] op = "Equality" -> IntegerValue(svEqual(cvl.integer, cvr.integer))
           [] op = "Inequality" -> IntegerValue(svNotEqual(cvl.integer, cvr.integer))
           [] op = "LessThan" -> IntegerValue(svLess(cvl.integer, cvr.integer))
           [] op = "CaseInequality" ->
                  IntegerValue(SVInt(IF exactlyEqual(cvl.integer, cvr.integer) THEN 0
                                     ELSE 1))
           [] OTHER -> IntegerValue(svLogical(op, cvl.integer, cvr.integer))

isLValueOp(op) ==
    op \in {"Preincrement", "Predecrement", "Postincrement", "Postdecrement"}

isShortCircuitOp(op) == op \in {"LogicalAnd", "LogicalOr", "LogicalImplication"}

\* EvalContext::findLocal
findLocal(ctx, name) ==
    LET found == {n \in 1 .. Len(ctx.locals) : ctx.locals[n].symbol = name}
    IN  IF found = {} THEN <<>> ELSE <<ctx.locals[CHOOSE n \in found : TRUE].value>>

\* Symbol::isBeforeInCompilationUnit: no answer for symbols of different
\* compilation units
isBeforeInCompilationUnit(symbol, target) ==
    IF symbol.unit # target.unit THEN <<>> ELSE <<symbol.position < target.position>>

\* a check of parameters that accepts every one of them
isBefore_always(symbol, frame) == TRUE

\* a parameter referenced in a constant function: was it declared before
\* the call; frameScope is frame.lookupLocation.getScope()
isBefore(symbol, frame) ==
    LET compare == isBeforeInCompilationUnit(symbol, frame.scopeSymbol)
    IN  IF frame.scope = "" \/ (symbol.parents # <<>> /\ symbol.parents[1] = frame.scope)
        THEN symbol.index + 1 < frame.index
        ELSE IF compare = <<>> THEN TRUE ELSE compare[1]

\* the walk up the parent scopes of a symbol to the subroutine
isLocalTo(symbol, subroutine) ==
    \E n \in 1 .. Len(symbol.parents) : symbol.parents[n] = subroutine

\* NamedValueExpression::verifyConstantImpl
verifyConstantImpl(e, ctx) ==
    IF ctx.isScriptEval THEN [ok |-> TRUE, ctx |-> ctx]
    ELSE IF e.symbol.isHierarchical
    THEN [ok |-> FALSE, ctx |-> addDiag(ctx, "NoteHierarchicalNameInCE")]
    ELSE IF ctx.frame.subroutine = <<>> THEN [ok |-> TRUE, ctx |-> ctx]
    ELSE IF e.symbol.kind # "Parameter"
    THEN IF isLocalTo(e.symbol, ctx.frame.subroutine[1])
         THEN [ok |-> TRUE, ctx |-> ctx]
         ELSE [ok |-> FALSE,
               ctx |-> addDiag(addDiag(ctx, "NoteFunctionIdentifiersMustBeLocal"),
                               "NoteDeclarationHere")]
    ELSE IF isBefore(e.symbol, ctx.frame) THEN [ok |-> TRUE, ctx |-> ctx]
    ELSE [ok |-> FALSE,
          ctx |-> addDiag(addDiag(ctx, "NoteParamUsedInCEBeforeDecl"),
                          "NoteDeclarationHere")]

RECURSIVE eval(_, _, _)
RECURSIVE evalImpl(_, _, _)

NamedValueEvalImpl(e, ctx) ==
    LET verified == verifyConstantImpl(e, ctx)
        local == findLocal(verified.ctx, e.symbol.name)
    IN  IF ~verified.ok THEN Result(Invalid, verified.ctx)
        ELSE IF e.symbol.kind = "Parameter"
        THEN IF e.symbol.inDefinition THEN Result(Invalid, verified.ctx)
             ELSE Result(e.symbol.value, verified.ctx)
        ELSE IF e.symbol.kind = "EnumValue" THEN Result(e.symbol.value, verified.ctx)
        ELSE IF local # <<>> THEN Result(local[1], verified.ctx)
        ELSE Result(Invalid, addDiag(addDiag(verified.ctx, "NoteNonConstVariable"),
                                     "NoteDeclarationHere"))

UnaryEvalImpl(e, ctx, garbage) ==
    LET operand == eval(e.operands[1], ctx, garbage)
        v == operand.cv.integer
    IN  IF isInvalid(operand.cv) THEN Result(Invalid, operand.ctx)
        ELSE IF e.op = "Minus"
        THEN Result(IntegerValue(IF v.hasUnknown \/ v.exceedsInt32 THEN v
                                 ELSE SVInt(0 - v.bits)), operand.ctx)
        ELSE Result(IntegerValue(IF v.hasUnknown THEN v
                                 ELSE SVInt(IF isFalse(operand.cv) THEN 1 ELSE 0)),
                    operand.ctx)

\* BinaryExpression::evalImpl evaluating the right operand in every case
BinaryEvalImpl_eager(e, ctx, garbage) ==
    LET l == eval(e.operands[1], ctx, garbage)
        r == eval(e.operands[2], l.ctx, garbage)
    IN  IF isInvalid(l.cv) THEN Result(Invalid, l.ctx)
        ELSE IF isInvalid(r.cv) THEN Result(Invalid, r.ctx)
        ELSE Result(evalBinaryOperator(e.op, l.cv, r.cv), r.ctx)

BinaryEvalImpl(e, ctx, garbage) ==
    LET l == eval(e.operands[1], ctx, garbage)
        r == eval(e.operands[2], l.ctx, garbage)
    IN  IF isInvalid(l.cv) THEN Result(Invalid, l.ctx)
        ELSE IF e.op = "LogicalOr" /\ isTrue(l.cv) THEN Result(Bool(TRUE), l.ctx)
        ELSE IF e.op = "LogicalAnd" /\ isFalse(l.cv) THEN Result(Bool(FALSE), l.ctx)
        ELSE IF e.op = "LogicalImplication" /\ isFalse(l.cv)
        THEN Result(Bool(TRUE), l.ctx)
        ELSE IF isInvalid(r.cv) THEN Result(Invalid, r.ctx)
        ELSE Result(evalBinaryOperator(e.op, l.cv, r.cv), r.ctx)

ConditionalEvalImpl(e, ctx, garbage) ==
    LET cp == eval(e.operands[1], ctx, garbage)
        l == eval(e.operands[2], cp.ctx, garbage)
        r == eval(e.operands[3], cp.ctx, garbage)
        rAfterL == eval(e.operands[3], l.ctx, garbage)
    IN  IF isInvalid(cp.cv) THEN Result(Invalid, cp.ctx)
        ELSE IF cp.cv.tag = "integer" /\ cp.cv.integer.hasUnknown
        THEN IF isInvalid(l.cv) \/ isInvalid(rAfterL.cv)
             THEN Result(Invalid, rAfterL.ctx)
             ELSE Result(IntegerValue(svConditional(l.cv.integer, rAfterL.cv.integer)),
                         rAfterL.ctx)
        ELSE IF isTrue(cp.cv) THEN l
        ELSE r

ElementSelectEvalImpl(e, ctx, garbage) ==
    LET valueType == e.operands[1].type
        cv == eval(e.operands[1], ctx, garbage)
        cs == eval(e.operands[2], cv.ctx, garbage)
        checked == checkArrayIndex(cs.ctx, valueType, cs.cv, cv.cv.str)
        index == checked.result
        elemWidth == getBitWidth(e.type)
    IN  IF isInvalid(cv.cv) \/ isInvalid(cs.cv) THEN Result(Invalid, cs.ctx)
        ELSE IF ~checked.ok THEN Result(Invalid, checked.ctx)
        ELSE IF isUnpackedArray(valueType)
        THEN Result(cv.cv.elements[index + 1], checked.ctx)
        ELSE IF isString(valueType) THEN Result(getSlice(cv.cv, index, index), checked.ctx)
        ELSE Result(IntegerValue(slice(cv.cv.integer,
                                       index * elemWidth + elemWidth - 1,
                                       index * elemWidth)), checked.ctx)

RangeSelectEvalImpl(e, ctx, garbage) ==
    LET cv == eval(e.operands[1], ctx, garbage)
        cl == eval(e.operands[2], cv.ctx, garbage)
        cr == eval(e.operands[3], cl.ctx, garbage)
        range == getRange(e, cr.ctx, cl.cv, cr.cv, garbage)
    IN  IF isInvalid(cv.cv) \/ isInvalid(cl.cv) \/ isInvalid(cr.cv)
        THEN Result(Invalid, cr.ctx)
        ELSE IF ~range.ok THEN Result(Invalid, range.ctx)
        ELSE Result(getSlice(cv.cv, upper(range.range), lower(range.range)), range.ctx)

\* the slot of a local in the top frame, 0 if there is none
localSlot(ctx, name) ==
    LET found == {n \in 1 .. Len(ctx.locals) : ctx.locals[n].symbol = name}
    IN  IF found = {} THEN 0 ELSE CHOOSE n \in found : TRUE

\* LValueVisitor::visit and NamedValueExpression::evalLValueImpl: the lvalue
\* is the slot of the local
evalLValue(e, ctx) ==
    LET verified == verifyConstantImpl(e, ctx)
        slot == localSlot(verified.ctx, e.symbol.name)
    IN  IF bad(e) \/ e.kind # "NamedValue" THEN [ok |-> FALSE, slot |-> 0, ctx |-> ctx]
        ELSE IF ~verified.ok THEN [ok |-> FALSE, slot |-> 0, ctx |-> verified.ctx]
        ELSE IF slot = 0
        THEN [ok |-> FALSE, slot |-> 0,
              ctx |-> addDiag(addDiag(verified.ctx, "NoteNonConstVariable"),
                              "NoteDeclarationHere")]
        ELSE [ok |-> TRUE, slot |-> slot, ctx |-> verified.ctx]

\* a store that writes nowhere
store_nowhere(ctx, slot, value) == ctx

\* LValue::load and LValue::store
load(ctx, slot) == ctx.locals[slot].value
store(ctx, slot, value) == [ctx EXCEPT !.locals[slot].value = value]

\* UnaryExpression::evalImpl for the operators that require an lvalue
lvalueOpEvalImpl(e, ctx) ==
    LET lvalue == evalLValue(e.operands[1], ctx)
        cv == load(lvalue.ctx, lvalue.slot)
        changed == svAdd(cv.integer,
                         SVInt(IF e.op \in {"Preincrement", "Postincrement"} THEN 1
                               ELSE 0 - 1))
    IN  IF ~lvalue.ok THEN Result(Invalid, lvalue.ctx)
        ELSE IF isInvalid(cv) THEN Result(Invalid, lvalue.ctx)
        ELSE Result(IntegerValue(IF e.op \in {"Preincrement", "Predecrement"}
                                 THEN changed ELSE cv.integer),
                    store(lvalue.ctx, lvalue.slot, IntegerValue(changed)))

\* AssignmentExpression::evalImpl leaving the right-hand side alone when the
\* lvalue could not be evaluated
AssignmentEvalImpl_lvalueFirst(e, ctx, garbage) ==
    LET lvalue == evalLValue(e.operands[1], ctx)
        rvalue == eval(e.operands[2], lvalue.ctx, garbage)
        stored == IF e.op # ""
                  THEN evalBinaryOperator(e.op, load(rvalue.ctx, lvalue.slot), rvalue.cv)
                  ELSE rvalue.cv
    IN  IF ~lvalue.ok THEN Result(Invalid, lvalue.ctx)
        ELSE IF isInvalid(rvalue.cv) THEN Result(Invalid, rvalue.ctx)
        ELSE Result(stored, store(rvalue.ctx, lvalue.slot, stored))

AssignmentEvalImpl(e, ctx, garbage) ==
    LET lvalue == evalLValue(e.operands[1], ctx)
        rvalue == eval(e.operands[2], lvalue.ctx, garbage)
        stored == IF e.op # ""
                  THEN evalBinaryOperator(e.op, load(rvalue.ctx, lvalue.slot), rvalue.cv)
                  ELSE rvalue.cv
    IN  IF ~lvalue.ok \/ isInvalid(rvalue.cv) THEN Result(Invalid, rvalue.ctx)
        ELSE Result(stored, store(rvalue.ctx, lvalue.slot, stored))

\* EvalContext::pushFrame, popFrame and createLocal
pushFrame(ctx, subroutine, lookupLocation) ==
    [ctx EXCEPT !.stack = Append(@, [frame |-> ctx.frame, locals |-> ctx.locals]),
                !.frame = EvalFrame(<<subroutine.name>>, lookupLocation.scope,
                                    lookupLocation.index),
                !.locals = <<>>]
popFrame(ctx) ==
    [ctx EXCEPT !.stack = SubSeq(@, 1, Len(@) - 1),
                !.frame = ctx.stack[Len(ctx.stack)].frame,
                !.locals = ctx.stack[Len(ctx.stack)].locals]
createLocal(ctx, name, value) ==
    [ctx EXCEPT !.locals = Append(@, [symbol |-> name, value |-> value])]

\* the loop over arguments(): the values, or not ok once one is invalid
RECURSIVE evalArguments(_, _, _, _, _)
\* ... one pass of it, v being the value of argument n: if (!v) return nullptr
argumentEvaluated(arguments, n, args, v, garbage) ==
    IF isInvalid(v.cv) THEN [ok |-> FALSE, args |-> args, ctx |-> v.ctx]
    ELSE evalArguments(arguments, n + 1, Append(args, v.cv), v.ctx, garbage)
evalArguments(arguments, n, args, ctx, garbage) ==
    IF n > Len(arguments) THEN [ok |-> TRUE, args |-> args, ctx |-> ctx]
    ELSE argumentEvaluated(arguments, n, args, eval(arguments[n], ctx, garbage), garbage)

\* the loop over the formals
RECURSIVE createFormals(_, _, _, _)
createFormals(ctx, formals, args, n) ==
    IF n > Len(formals) THEN ctx
    ELSE createFormals(createLocal(ctx, formals[n], args[n]), formals, args, n + 1)

\* Statement::eval of a body that is a list of expression statements and
\* return statements: Fail once an expression is invalid, Return after a
\* return statement has stored its value in the return value variable,
\* Success at the end
Statement(kind, e) == [kind |-> kind, expr |-> e]
RECURSIVE evalBody(_, _, _, _, _)
\* ... one statement of it, r being the value of its expression
statementEvaluated(body, n, returnValVar, r, garbage) ==
    IF isInvalid(r.cv) THEN [er |-> "Fail", ctx |-> r.ctx]
    ELSE IF body[n].kind = "Return"
    THEN [er |-> "Return", ctx |-> store(r.ctx, localSlot(r.ctx, returnValVar), r.cv)]
    ELSE evalBody(body, n + 1, returnValVar, r.ctx, garbage)
evalBody(body, n, returnValVar, ctx, garbage) ==
    IF n > Len(body) THEN [er |-> "Success", ctx |-> ctx]
    ELSE statementEvaluated(body, n, returnValVar, eval(body[n].expr, ctx, garbage),
                            garbage)

\* a call that pushes its frame before it looks at its arguments
enterFrame_pushFirst(e, args) ==
    IF ~args.ok
    THEN [ok |-> FALSE, ctx |-> pushFrame(args.ctx, e.symbol, e.lookupLocation)]
    ELSE [ok |-> TRUE,
          ctx |-> createLocal(createFormals(pushFrame(args.ctx, e.symbol,
                                                      e.lookupLocation),
                                            e.symbol.arguments, args.args, 1),
                              e.symbol.name, IntegerValue(SVInt(0)))]

\* CallExpression::evalImpl up to the evaluation of the body: the arguments,
\* the new frame and its locals
\* ... the frame and its locals, args being the arguments evaluated
enterFrame(e, args) ==
    IF ~args.ok THEN [ok |-> FALSE, ctx |-> args.ctx]
    ELSE [ok |-> TRUE,
          ctx |-> createLocal(createFormals(pushFrame(args.ctx, e.symbol,
                                                      e.lookupLocation),
                                            e.symbol.arguments, args.args, 1),
                              e.symbol.name, IntegerValue(SVInt(0)))]
callEnter(e, ctx, garbage) ==
    enterFrame(e, evalArguments(e.operands, 1, <<>>, ctx, garbage))

\* ... the evaluation of the body
callBody(e, ctx, garbage) == evalBody(e.symbol.body, 1, e.symbol.name, ctx, garbage)

\* a return that yields the return value whatever the body ended with
callReturn_ignoresFail(e, status, ctx) ==
    Result(findLocal(ctx, e.symbol.name)[1], popFrame(ctx))

\* ... and what follows it: the result, and the context with the frame popped
callReturn(e, status, ctx) ==
    LET result == findLocal(ctx, e.symbol.name)[1]
    IN  IF status = "Fail" THEN Result(Invalid, popFrame(ctx))
        ELSE Result(result, popFrame(ctx))
callBodyDone(e, body) == callReturn(e, body.er, body.ctx)

\* the call once its frame is entered, and once its body has been run
callEntered(e, entered, garbage) ==
    IF ~entered.ok THEN Result(Invalid, entered.ctx)
    ELSE callBodyDone(e, callBody(e, entered.ctx, garbage))
CallEvalImpl(e, ctx, garbage) == callEntered(e, callEnter(e, ctx, garbage), garbage)

ConversionEvalImpl(e, ctx, garbage) ==
    LET value == eval(e.operands[1], ctx, garbage)
    IN  Result(convertToInt(value.cv), value.ctx)

evalImpl(e, ctx, garbage) ==
    CASE e.kind = "IntegerLiteral" -> Result(IntegerValue(e.value), ctx)
      [] e.kind = "NamedValue" -> NamedValueEvalImpl(e, ctx)
      [] e.kind = "UnaryOp" ->
             IF isLValueOp(e.op) THEN lvalueOpEvalImpl(e, ctx)
             ELSE UnaryEvalImpl(e, ctx, garbage)
      [] e.kind = "BinaryOp" -> BinaryEvalImpl(e, ctx, garbage)
      [] e.kind = "ConditionalOp" -> ConditionalEvalImpl(e, ctx, garbage)
      [] e.kind = "ElementSelect" -> ElementSelectEvalImpl(e, ctx, garbage)
      [] e.kind = "RangeSelect" -> RangeSelectEvalImpl(e, ctx, garbage)
      [] e.kind = "Assignment" -> AssignmentEvalImpl(e, ctx, garbage)
      [] e.kind = "Call" -> CallEvalImpl(e, ctx, garbage)
      [] e.kind = "Conversion" -> ConversionEvalImpl(e, ctx, garbage)
      [] OTHER -> Result(Invalid, ctx)

\* EvalVisitor::visit
eval(e, ctx, garbage) ==
    IF e.constant # <<>> THEN Result(e.constant[1], ctx)
    ELSE IF bad(e) THEN Result(Invalid, ctx)
    ELSE evalImpl(e, ctx, garbage)

(***************************************************************************)
(* The expressions evaluated: literals, names of every kind the evaluator  *)
(* tells apart, element and range selects of packed and unpacked arrays    *)
(* and of a string, and operators over them.  The binder has checked the   *)
(* bounds of a simple range select and that the width of an indexed one    *)
(* is a positive constant.                                                 *)
(***************************************************************************)
integer(n) == IntegerValue(SVInt(n))
Literals ==
    {IntegerLiteral(SVInt(n)) : n \in (0 - 1) .. MaxLiteral}
        \cup {IntegerLiteral(UnknownSVInt), IntegerLiteral(WideSVInt)}

Names ==
    {NamedValueExpression(Symbol("Parameter", "p", FALSE, integer(1), FALSE), IntType),
     NamedValueExpression(Symbol("Parameter", "q", TRUE, integer(1), FALSE), IntType),
     NamedValueExpression(Symbol("Parameter", "r", FALSE, Invalid, FALSE), IntType),
     NamedValueExpression(Symbol("Parameter", "h", FALSE, integer(1), TRUE), IntType),
     NamedValueExpression(Symbol("EnumValue", "e", FALSE, integer(2), FALSE), IntType),
     NamedValueExpression(Symbol("EnumValue", "f", FALSE, Invalid, FALSE), IntType),
     NamedValueExpression(Symbol("Variable", "x", FALSE, Invalid, FALSE), IntType),
     NamedValueExpression(Symbol("Variable", "y", FALSE, Invalid, FALSE), IntType),
     [NamedValueExpression(Symbol("Variable", "z", FALSE, Invalid, FALSE), IntType)
          EXCEPT !.constant = <<integer(3)>>]}

Leaves == Literals \cup Names \cup {InvalidExpression, DataTypeExpression}

\* logic [3:0] foo, logic [0:3] bar, logic [1:0][1:0] mda, int arr [0:2],
\* string str
Vec2 == getVectorType(2, Logic)
ByteType == PredefinedIntegerType("Byte")
Array(name, type, elementType, value) ==
    [expr |-> NamedValueExpression(Symbol("Parameter", name, FALSE, value, FALSE), type),
     elementType |-> elementType]
Arrays ==
    {Array("foo", getVectorType(4, Logic), Logic, integer(10)),
     Array("bar", PackedArrayType(Logic, ConstantRange(0, 3), Syntax("dim", 1)),
           Logic, integer(10)),
     Array("mda", PackedArrayType(Vec2, ConstantRange(1, 0), Syntax("dim", 2)),
           Vec2, integer(9)),
     Array("arr", UnpackedArrayType(IntType, ConstantRange(0, 2), Syntax("dim", 1)),
           IntType, UnpackedValue(<<integer(5), integer(6), integer(7)>>))}
Strings == {Array("str", StringType, ByteType, StringValue(<<104, 105>>))}

ElementSelects ==
    {ElementSelectExpression(a.elementType, a.expr, i) :
         a \in Arrays \cup Strings, i \in Leaves}

\* the type of value[l:r]
selectedType(a, l, r) ==
    IF isUnpackedArray(a.expr.type)
    THEN UnpackedArrayType(a.elementType, ConstantRange(l, r), NoSyntax)
    ELSE PackedArrayType(a.elementType, ConstantRange(l, r), NoSyntax)

SimpleBounds(range) ==
    {b \in (lower(range) .. upper(range)) \X (lower(range) .. upper(range)) :
         b[1] = b[2] \/ isLittleEndian(ConstantRange(b[1], b[2])) = isLittleEndian(range)}

SimpleRangeSelects ==
    UNION {{RangeSelectExpression("Simple", selectedType(a, b[1], b[2]), a.expr,
                                  IntegerLiteral(SVInt(b[1])),
                                  IntegerLiteral(SVInt(b[2]))) :
                b \in SimpleBounds(getArrayRange(a.expr.type))} : a \in Arrays}

Widths == {IntegerLiteral(SVInt(1)), IntegerLiteral(SVInt(2)), IntegerLiteral(WideSVInt)}

IndexedRangeSelects ==
    {RangeSelectExpression(k, a.expr.type, a.expr, l, w) :
         k \in {"IndexedUp", "IndexedDown"}, a \in Arrays, l \in Leaves, w \in Widths}

Selects == ElementSelects \cup SimpleRangeSelects \cup IndexedRangeSelects

Operands ==
    Names \cup {InvalidExpression, DataTypeExpression}
        \cup {IntegerLiteral(SVInt(n)) : n \in 0 .. 1}
        \cup {IntegerLiteral(UnknownSVInt)}
        \cup {e \in ElementSelects :
                  /\ e.operands[1].symbol.name \in {"foo", "arr"}
                  /\ e.operands[2] \in {IntegerLiteral(SVInt(1)),
                                        IntegerLiteral(SVInt(MaxLiteral))}}

\* predicates and branches of the conditional operators
Predicates ==
    {e \in Operands : e.kind \in {"IntegerLiteral", "Invalid"}
                          \/ e.symbol.name \in {"p", "r", "x"}}
Branches ==
    {e \in Operands : e.kind \in {"DataType", "ElementSelect"}
                          \/ e.symbol.name \in {"e", "y"}}

Operators ==
    {UnaryExpression(op, a) : op \in {"Minus", "LogicalNot"}, a \in Operands}
        \cup {BinaryExpression(op, a, b) :
                  op \in {"Add", "Equality", "LogicalAnd", "LogicalOr",
                          "LogicalImplication"},
                  a \in Operands, b \in Operands}
        \cup {ConditionalExpression(c, a, b) :
                  c \in Predicates, a \in Branches, b \in Branches}
        \cup {ConversionExpression(a) : a \in Operands}

Expressions == Leaves \cup Selects \cup Operators

Local(name, value) == [symbol |-> name, value |-> value]
Contexts ==
    {EvalContext(script, locals) :
         script \in BOOLEAN, locals \in {<<>>, <<Local("x", integer(2))>>}}

\* what an uninitialised int32_t may hold
Garbage == (0 - 1) .. MaxLiteral

EvalIdle ==
    /\ expr = InvalidExpression
    /\ context = EvalContext(FALSE, <<>>)
    /\ evalResult = <<>>
    /\ evalPc = "idle" /\ er = "" /\ verifyResult = <<>>

EvalInit ==
    /\ expr \in Expressions
    /\ context \in Contexts
    /\ evalResult = <<>>
    /\ evalPc = "idle" /\ er = "" /\ verifyResult = <<>>

\* Expression::eval(context)
Evaluate(garbage) ==
    /\ evalResult = <<>>
    /\ LET r == eval(expr, context, garbage)
       IN  /\ evalResult' = <<r.cv>>
           /\ context' = r.ctx
    /\ UNCHANGED <<expr, evalPc, er, verifyResult>>

(***************************************************************************)
(* Calls of the function f(a, b) from a frame that has the local x.  The   *)
(* arguments may assign to x; the body reads and writes the formals and    *)
(* the return value variable, and may name variables outside f.            *)
(***************************************************************************)
\* the variables x and y of the calling scope
VariableX == NamedValueExpression(Symbol("Variable", "x", FALSE, Invalid, FALSE), IntType)
VariableY == NamedValueExpression(Symbol("Variable", "y", FALSE, Invalid, FALSE), IntType)

LocalOfF(name) ==
    [Symbol("Variable", name, FALSE, Invalid, FALSE) EXCEPT !.parents = <<"f">>]
FormalA == NamedValueExpression(LocalOfF("a"), IntType)
FormalB == NamedValueExpression(LocalOfF("b"), IntType)
ReturnValVar == NamedValueExpression(LocalOfF("f"), IntType)

Bodies ==
    {<<>>,
     <<Statement("Return", BinaryExpression("Add", FormalA, FormalB))>>,
     <<Statement("ExpressionStatement", AssignmentExpression("", ReturnValVar, FormalA))>>,
     <<Statement("ExpressionStatement", AssignmentExpression("Add", FormalA, FormalB)),
       Statement("Return", FormalA)>>,
     <<Statement("Return", VariableY)>>,
     <<Statement("Return", VariableX)>>,
     <<Statement("ExpressionStatement", AssignmentExpression("", ReturnValVar, FormalB)),
       Statement("ExpressionStatement", VariableY)>>}

SubroutineSymbol(name, arguments, body) ==
    [Symbol("Subroutine", name, FALSE, Invalid, FALSE)
         EXCEPT !.arguments = arguments, !.body = body]

Arguments ==
    {IntegerLiteral(SVInt(1)), IntegerLiteral(SVInt(2)), VariableX, VariableY,
     AssignmentExpression("", VariableX, IntegerLiteral(SVInt(3))),
     AssignmentExpression("", VariableX,
                          BinaryExpression("Add", VariableX, IntegerLiteral(SVInt(1)))),
     AssignmentExpression("Add", VariableX, IntegerLiteral(SVInt(2)))}

Calls ==
    {CallExpression(SubroutineSymbol("f", <<"a", "b">>, body), <<a, b>>, "m", 1) :
         body \in Bodies, a \in Arguments, b \in Arguments}

CallInit ==
    /\ expr \in Calls
    /\ context \in {EvalContext(script, <<Local("x", integer(n))>>) :
                        script \in BOOLEAN, n \in 0 .. 1}
    /\ evalResult = <<>>
    /\ evalPc = "call" /\ er = "" /\ verifyResult = <<>>

\* CallExpression::evalImpl: the arguments, the frame, the locals
CallEnter(garbage) ==
    /\ evalPc = "call"
    /\ \E entered \in {callEnter(expr, context, garbage)} :
           /\ context' = entered.ctx
           /\ IF entered.ok
              THEN evalPc' = "body" /\ UNCHANGED evalResult
              ELSE evalPc' = "done" /\ evalResult' = <<Invalid>>
    /\ UNCHANGED <<expr, er, verifyResult>>

\* ... the body
CallBody(garbage) ==
    /\ evalPc = "body"
    /\ \E body \in {callBody(expr, context, garbage)} :
           /\ context' = body.ctx
           /\ er' = body.er
    /\ evalPc' = "return"
    /\ UNCHANGED <<expr, evalResult, verifyResult>>

\* ... the result
CallReturn ==
    /\ evalPc = "return"
    /\ LET r == callReturn(expr, er, context)
       IN  /\ evalResult' = <<r.cv>>
           /\ context' = r.ctx
    /\ evalPc' = "done"
    /\ UNCHANGED <<expr, er, verifyResult>>

(***************************************************************************)
(* Verification of a named value in a constant function: the symbol is a   *)
(* variable or a parameter, declared in the function f, in a block of f,   *)
(* in the scope m of the call or in a package p, in the compilation unit   *)
(* of the call or in another one; the frame on top is that of a call of f  *)
(* from m, or from a location without a scope (LookupLocation::min and     *)
(* max), or the bottom frame.                                              *)
(***************************************************************************)
\* LookupLocation::max is after every symbol
MaxLocationIndex == MaxSymbolIndex + 2

VerifiedSymbols ==
    {[Symbol(kind, "v", FALSE, Invalid, hierarchical)
          EXCEPT !.parents = parents, !.index = index, !.unit = unit,
                 !.position = position] :
         kind \in {"Variable", "Parameter"}, hierarchical \in BOOLEAN,
         parents \in {<<"f">>, <<"block", "f">>, <<"m">>, <<"p">>},
         index \in 0 .. MaxSymbolIndex, unit \in 0 .. 1, position \in 0 .. MaxPosition}

VerifyFrames ==
    {NoFrame}
        \cup {[EvalFrame(<<"f">>, "m", index)
                  EXCEPT !.scopeSymbol = [unit |-> 0, position |-> 1]] :
                  index \in 0 .. MaxSymbolIndex + 1}
        \cup {EvalFrame(<<"f">>, "", index) : index \in {0, MaxLocationIndex}}

VerifyInit ==
    /\ expr \in {NamedValueExpression(symbol, IntType) : symbol \in VerifiedSymbols}
    /\ context \in {[EvalContext(script, <<>>) EXCEPT !.frame = frame] :
                        script \in BOOLEAN, frame \in VerifyFrames}
    /\ evalResult = <<>>
    /\ evalPc = "verify" /\ er = "" /\ verifyResult = <<>>

\* Expression::verifyConstant of a named value
Verify ==
    /\ evalPc = "verify"
    /\ \E verified \in {verifyConstantImpl(expr, context)} :
           /\ verifyResult' = <<verified.ok>>
           /\ context' = verified.ctx
    /\ evalPc' = "verified"
    /\ UNCHANGED <<expr, evalResult, er>>

(***************************************************************************)
(* Verification of a call in a program of constant functions, each with    *)
(* the formal a and a body that is one return statement:                   *)
(*   f: return f(a)     g: return h(a)     h: return g(a)                  *)
(*   k: return a        m: return k(a)     n: return k(y)     q: return y  *)
(* y is a variable of no function.  A call expression refers to its        *)
(* subroutine symbol, here by name; getBody is the symbol's body.          *)
(***************************************************************************)
LocalOf(fn, name) ==
    [Symbol("Variable", name, FALSE, Invalid, FALSE) EXCEPT !.parents = <<fn>>]
Formal(fn) == NamedValueExpression(LocalOf(fn, "a"), IntType)
CallOf(name, argument, scope) ==
    CallExpression(SubroutineSymbol(name, <<"a">>, <<>>), <<argument>>, scope, 1)
Program ==
    [f |-> <<Statement("Return", CallOf("f", Formal("f"), "f"))>>,
     g |-> <<Statement("Return", CallOf("h", Formal("g"), "g"))>>,
     h |-> <<Statement("Return", CallOf("g", Formal("h"), "h"))>>,
     k |-> <<Statement("Return", Formal("k"))>>,
     m |-> <<Statement("Return", CallOf("k", Formal("m"), "m"))>>,
     n |-> <<Statement("Return", CallOf("k", VariableY, "n"))>>,
     q |-> <<Statement("Return", VariableY)>>]
getBody(symbol) == Program[symbol.name]

HierarchicalZ == NamedValueExpression(Symbol("Variable", "z", FALSE, Invalid, TRUE), IntType)
VerifiedCalls ==
    {CallOf(name, argument, "top") :
         name \in DOMAIN Program,
         argument \in {IntegerLiteral(SVInt(1)), VariableY, HierarchicalZ}}

VerifyCallInit ==
    /\ expr \in VerifiedCalls
    /\ context \in {EvalContext(script, <<>>) : script \in BOOLEAN}
    /\ evalResult = <<>>
    /\ evalPc = "verifyCall" /\ er = "" /\ verifyResult = <<>>

\* Expression::verifyConstant of a literal or a named value
verifyConstant(e, ctx) ==
    IF bad(e) THEN [ok |-> FALSE, ctx |-> ctx]
    ELSE IF e.kind = "NamedValue" THEN verifyConstantImpl(e, ctx)
    ELSE [ok |-> TRUE, ctx |-> ctx]

\* the loop over arguments() of CallExpression::verifyConstantImpl
RECURSIVE verifyArguments(_, _, _)
argumentVerified(arguments, n, v) ==
    IF ~v.ok THEN v ELSE verifyArguments(arguments, n + 1, v.ctx)
verifyArguments(arguments, n, ctx) ==
    IF n > Len(arguments) THEN [ok |-> TRUE, ctx |-> ctx]
    ELSE argumentVerified(arguments, n, verifyConstant(arguments[n], ctx))

\* the call that is being verified: the one verification started with, or
\* the one in the body of the subroutine of the top frame
verifiedCall ==
    IF context.stack = <<>> THEN expr
    ELSE getBody([name |-> context.frame.subroutine[1]])[1].expr

\* what a call that returns goes back to: the caller of verifyConstant, or
\* the body of the subroutine in the frame below, which is at its end
returnTo(ctx) == IF ctx.stack = <<>> THEN "verified" ELSE "verifyReturn"

\* CallExpression::verifyConstantImpl: the arguments and the new frame
VerifyCallEnter ==
    /\ evalPc = "verifyCall"
    /\ Len(context.stack) < MaxFrames
    /\ \E args \in {verifyArguments(verifiedCall.operands, 1, context)} :
           IF ~args.ok
           THEN /\ context' = args.ctx
                /\ verifyResult' = <<FALSE>>
                /\ evalPc' = returnTo(context)
           ELSE /\ context' = pushFrame(args.ctx, verifiedCall.symbol,
                                        verifiedCall.lookupLocation)
                /\ evalPc' = "verifyBody"
                /\ UNCHANGED verifyResult
    /\ UNCHANGED <<expr, evalResult, er>>

\* ... symbol.getBody().verifyConstant(context): the return statement
\* verifies its expression, which for a call is verifyConstantImpl again
VerifyCallBody ==
    /\ evalPc = "verifyBody"
    /\ \E body \in {getBody([name |-> context.frame.subroutine[1]])} :
           IF body[1].expr.kind = "Call"
           THEN evalPc' = "verifyCall" /\ UNCHANGED <<context, verifyResult>>
           ELSE \E verified \in {verifyConstant(body[1].expr, context)} :
                    /\ context' = verified.ctx
                    /\ verifyResult' = <<verified.ok>>
                    /\ evalPc' = "verifyReturn"
    /\ UNCHANGED <<expr, evalResult, er>>

\* ... context.popFrame(); return result
VerifyCallReturn ==
    /\ evalPc = "verifyReturn"
    /\ context' = popFrame(context)
    /\ evalPc' = returnTo(popFrame(context))
    /\ UNCHANGED <<expr, evalResult, er, verifyResult>>

(***************************************************************************)
(* A session: assignments to the locals x and y are evaluated again and    *)
(* again in one EvalContext that has the local x.                          *)
(***************************************************************************)
Assignments ==
    {AssignmentExpression(op, target, value) :
         op \in {"", "Add"}, target \in {VariableX, VariableY},
         value \in {IntegerLiteral(SVInt(n)) : n \in (0 - 1) .. MaxLiteral}
                       \cup {BinaryExpression("Add", VariableX, IntegerLiteral(SVInt(n))) :
                                 n \in (0 - 1) .. MaxLiteral}
                       \cup {VariableY}}

SessionInit ==
    /\ expr \in Assignments
    /\ context \in {EvalContext(script, <<Local("x", integer(n))>>) :
                        script \in BOOLEAN, n \in 0 .. 1}
    /\ evalResult = <<>>
    /\ evalPc = "idle" /\ er = "" /\ verifyResult = <<>>

\* Expression::eval(context), in the context the earlier evaluations left
EvaluateInSession(garbage) ==
    /\ Len(context.diags) <= MaxDiags
    /\ \A n \in 1 .. Len(context.locals) :
           /\ context.locals[n].value.integer.bits <= MaxLocal
           /\ context.locals[n].value.integer.bits >= 0 - MaxLocal
    /\ LET r == eval(expr, context, garbage)
       IN  /\ evalResult' = <<r.cv>>
           /\ context' = r.ctx
    /\ UNCHANGED <<expr, evalPc, er, verifyResult>>

(***************************************************************************)
(* Operands with an effect, evaluated in a session that has the local x:   *)
(* x = 3, x += 1, x++ and ++x change x; y, a name that is not a local,     *)
(* records a note and has no value.                                        *)
(***************************************************************************)
Effects ==
    {AssignmentExpression("", VariableX, IntegerLiteral(SVInt(3))),
     AssignmentExpression("Add", VariableX, IntegerLiteral(SVInt(1))),
     UnaryExpression("Postincrement", VariableX),
     UnaryExpression("Preincrement", VariableX),
     VariableY,
     IntegerLiteral(SVInt(1))}

\* l && r, l || r and l -> r
ShortCircuits ==
    {BinaryExpression(op, l, r) :
         op \in {"LogicalAnd", "LogicalOr", "LogicalImplication"},
         l \in {IntegerLiteral(SVInt(0)), IntegerLiteral(SVInt(1)),
                IntegerLiteral(UnknownSVInt), VariableX, VariableY},
         r \in Effects}

\* assignments to x and to y whose right-hand side has an effect of its own
NestedAssignments ==
    {AssignmentExpression(op, target, value) :
         op \in {"", "Add"}, target \in {VariableX, VariableY},
         value \in Effects
                    \cup {BinaryExpression("Add", e, VariableY) : e \in Effects}
                    \cup {BinaryExpression("Add", VariableY, e) : e \in Effects}}

EffectInit ==
    /\ expr \in ShortCircuits \cup NestedAssignments
    /\ context \in {EvalContext(script, <<Local("x", integer(n))>>) :
                        script \in BOOLEAN, n \in 0 .. 1}
    /\ evalResult = <<>>
    /\ evalPc = "idle" /\ er = "" /\ verifyResult = <<>>

\* parameters a and b that hold unpacked arrays of MaxElements integers
ArrayValues ==
    {UnpackedValue([i \in 1 .. MaxElements |-> integer(v[i])]) :
         v \in [1 .. MaxElements -> 0 .. 2]}

ArrayParameter(name, value) ==
    NamedValueExpression(Symbol("Parameter", name, FALSE, value, FALSE),
                         UnpackedArrayType(IntType, ConstantRange(0, MaxElements - 1),
                                           Syntax("dim", 1)))

\* a == b and a != b
ArrayComparisons ==
    {BinaryExpression(op, ArrayParameter("a", l), ArrayParameter("b", r)) :
         op \in {"Equality", "Inequality"}, l \in ArrayValues, r \in ArrayValues}

ArrayCompareInit ==
    /\ expr \in ArrayComparisons
    /\ context \in Contexts
    /\ evalResult = <<>>
    /\ evalPc = "idle" /\ er = "" /\ verifyResult = <<>>

(***************************************************************************)
(* Range selects p[l:r] of a packed array p of MaxElements + 1 elements,   *)
(* each one or two bits wide, declared ascending or descending, with a     *)
(* zero or a non-zero lower bound; l and r are in bounds and in the        *)
(* declared direction.                                                     *)
(***************************************************************************)
PackedRanges ==
    {ConstantRange(0, MaxElements), ConstantRange(MaxElements, 0),
     ConstantRange(1, MaxElements + 1), ConstantRange(MaxElements + 1, 1)}
SelectElements == {Logic, Vec2}
PackedArrays ==
    UNION {{Array("p", PackedArrayType(t, range, Syntax("dim", 1)), t, integer(v)) :
                v \in 0 .. Pow2(width(range) * getBitWidth(t)) - 1} :
               t \in SelectElements, range \in PackedRanges}
PackedRangeSelects ==
    UNION {{RangeSelectExpression("Simple", selectedType(a, b[1], b[2]), a.expr,
                                  IntegerLiteral(SVInt(b[1])),
                                  IntegerLiteral(SVInt(b[2]))) :
                b \in SimpleBounds(getArrayRange(a.expr.type))} : a \in PackedArrays}

RangeSelectInit ==
    /\ expr \in PackedRangeSelects
    /\ context = EvalContext(FALSE, <<>>)
    /\ evalResult = <<>>
    /\ evalPc = "idle" /\ er = "" /\ verifyResult = <<>>


(***************************************************************************)
(* Loop generate: for (genvar i = initial; stop; iteration).  The stop and *)
(* the iteration expression read and assign the iteration variable i,      *)
(* which has the four-state type integer; y is a name that is not a        *)
(* local of the EvalContext.  One step of the model is the part of         *)
(* fromSyntax before the loop, the first half of a pass of the loop (the   *)
(* stop expression and the block), its second half (the iteration          *)
(* expression), or the part after the loop.                                *)
(***************************************************************************)
GenvarI == NamedValueExpression(Symbol("Variable", "i", FALSE, Invalid, FALSE), IntType)

Initials == {<<>>, <<SVInt(0)>>, <<SVInt(1)>>, <<UnknownSVInt>>}

StopExprs ==
    {BinaryExpression("LessThan", GenvarI, IntegerLiteral(SVInt(n))) : n \in 2 .. 3}
        \cup {BinaryExpression("CaseInequality", GenvarI, IntegerLiteral(SVInt(1))),
              IntegerLiteral(SVInt(1)), InvalidExpression}

\* i = i + 1
IncrementGenvar ==
    AssignmentExpression("", GenvarI,
                         BinaryExpression("Add", GenvarI, IntegerLiteral(SVInt(1))))
IterExprs ==
    {IncrementGenvar,
     AssignmentExpression("Add", GenvarI, IntegerLiteral(SVInt(2))),
     AssignmentExpression("", GenvarI, IntegerLiteral(SVInt(0))),
     AssignmentExpression("", GenvarI, IntegerLiteral(UnknownSVInt)),
     AssignmentExpression("", GenvarI, VariableY),
     InvalidExpression}

GenIdle ==
    /\ initial = <<>>
    /\ stopExpr = InvalidExpression
    /\ iterExpr = InvalidExpression
    /\ evalContext = EvalContext(FALSE, <<>>)
    /\ usedGenvars = {}
    /\ any = FALSE
    /\ blocks = <<>>
    /\ genDiags = <<>>
    /\ genPc = "idle"

GenInit ==
    /\ initial \in Initials
    /\ stopExpr \in StopExprs
    /\ iterExpr \in IterExprs
    /\ evalContext = EvalContext(FALSE, <<>>)
    /\ usedGenvars = {}
    /\ any = FALSE
    /\ blocks = <<>>
    /\ genDiags = <<>>
    /\ genPc = "bind"

\* the value of the iteration variable
loopVal == findLocal(evalContext, "i")[1].integer

\* a createBlock that gives every implicit parameter the value 0
createBlock_zero(value, isInstantiated) ==
    Append(blocks, [value |-> SVInt(0), isInstantiated |-> isInstantiated])

\* createBlock: the block and the value of its implicit parameter
createBlock(value, isInstantiated) ==
    Append(blocks, [value |-> value, isInstantiated |-> isInstantiated])

\* fromSyntax up to the loop
GenerateBind ==
    /\ genPc = "bind"
    /\ IF initial = <<>> \/ bad(stopExpr) \/ bad(iterExpr)
       THEN /\ genPc' = "done"
            /\ UNCHANGED <<evalContext, genDiags>>
       ELSE /\ evalContext' = createLocal(evalContext, "i", IntegerValue(initial[1]))
            /\ genDiags' = IF initial[1].hasUnknown
                           THEN Append(genDiags, "GenvarUnknownBits")
                           ELSE genDiags
            /\ genPc' = "stop"
    /\ UNCHANGED <<initial, stopExpr, iterExpr, usedGenvars, any, blocks>>

\* a pass of the loop that does not look at the values used so far
GenerateStop_noDuplicateCheck ==
    /\ genPc = "stop"
    /\ ~loopVal.hasUnknown => loopVal.bits <= MaxGenvar
    /\ \E stop \in {eval(stopExpr, evalContext, 0)} :
           /\ evalContext' = stop.ctx
           /\ IF isInvalid(stop.cv) \/ ~isTrue(stop.cv)
              THEN /\ genPc' = "finish"
                   /\ UNCHANGED <<usedGenvars, any, blocks, genDiags>>
              ELSE /\ usedGenvars' = usedGenvars \cup {loopVal}
                   /\ any' = TRUE
                   /\ blocks' = createBlock(loopVal, TRUE)
                   /\ genPc' = "iter"
                   /\ UNCHANGED genDiags
    /\ UNCHANGED <<initial, stopExpr, iterExpr>>

\* a pass of the loop, up to createBlock
GenerateStop ==
    /\ genPc = "stop"
    /\ ~loopVal.hasUnknown => loopVal.bits <= MaxGenvar
    /\ \E stop \in {eval(stopExpr, evalContext, 0)} :
           /\ evalContext' = stop.ctx
           /\ IF isInvalid(stop.cv) \/ ~isTrue(stop.cv)
              THEN /\ genPc' = "finish"
                   /\ UNCHANGED <<usedGenvars, any, blocks, genDiags>>
              ELSE IF loopVal \in usedGenvars
              THEN /\ genDiags' = Append(genDiags, "GenvarDuplicate")
                   /\ genPc' = "finish"
                   /\ UNCHANGED <<usedGenvars, any, blocks>>
              ELSE /\ usedGenvars' = usedGenvars \cup {loopVal}
                   /\ any' = TRUE
                   /\ blocks' = createBlock(loopVal, TRUE)
                   /\ genPc' = "iter"
                   /\ UNCHANGED genDiags
    /\ UNCHANGED <<initial, stopExpr, iterExpr>>

\* ... and the rest of the pass
GenerateIter ==
    /\ genPc = "iter"
    /\ \E iter \in {eval(iterExpr, evalContext, 0)} :
           /\ evalContext' = iter.ctx
           /\ IF isInvalid(iter.cv)
              THEN genPc' = "finish" /\ UNCHANGED genDiags
              ELSE /\ genDiags' =
                          IF findLocal(iter.ctx, "i")[1].integer.hasUnknown
                          THEN Append(genDiags, "GenvarUnknownBits")
                          ELSE genDiags
                   /\ genPc' = "stop"
    /\ UNCHANGED <<initial, stopExpr, iterExpr, usedGenvars, any, blocks>>

\* fromSyntax after the loop
GenerateFinish ==
    /\ genPc = "finish"
    /\ genDiags' = genDiags \o evalContext.diags
    /\ blocks' = IF any THEN blocks ELSE createBlock(SVInt(0), FALSE)
    /\ genPc' = "done"
    /\ UNCHANGED <<initial, stopExpr, iterExpr, evalContext, usedGenvars, any>>

(***************************************************************************)
(* Case generate.  An item is a standard item with one or two case         *)
(* expressions, each with the constant the binder gave it (<<>> if none),  *)
(* or the default item; the clause of an item is a plain generate block.   *)
(* The parser has rejected a second default item.  One step of the model   *)
(* is the part of fromSyntax before the second loop, one pass of that      *)
(* loop, or the part after it.                                             *)
(***************************************************************************)
\* the severity the diagnostics table gives a code
severity(code) ==
    IF code \in {"CaseGenerateDup", "CaseGenerateNoBlock"} THEN "warning" ELSE "error"
Diagnostic(code) == [code |-> code, severity |-> severity(code)]

StandardCaseItem(expressions) == [kind |-> "StandardCaseItem", expressions |-> expressions]
DefaultCaseItem == [kind |-> "DefaultCaseItem", expressions |-> <<>>]
CaseConstants == {<<>>, <<integer(0)>>, <<integer(1)>>}
CaseItems ==
    {StandardCaseItem(<<e>>) : e \in CaseConstants}
        \cup {StandardCaseItem(<<<<integer(0)>>, <<integer(1)>>>>), DefaultCaseItem}
RECURSIVE ItemLists(_)
ItemLists(n) ==
    IF n = 0 THEN {<<>>}
    ELSE ItemLists(n - 1)
             \cup {Append(items, item) : items \in ItemLists(n - 1), item \in CaseItems}
defaults(items) == {n \in 1 .. Len(items) : items[n].kind = "DefaultCaseItem"}

CaseIdle ==
    /\ caseCondition = <<>>
    /\ caseItems = <<>>
    /\ caseIsInstantiated = FALSE
    /\ casePassed = 0
    /\ caseFound = FALSE
    /\ caseWarned = FALSE
    /\ caseResults = <<>>
    /\ caseDiags = <<>>
    /\ casePc = "idle"

CaseInit ==
    /\ caseCondition \in CaseConstants
    /\ caseItems \in {items \in ItemLists(MaxItems) : Cardinality(defaults(items)) <= 1}
    /\ caseIsInstantiated \in BOOLEAN
    /\ casePassed = 0
    /\ caseFound = FALSE
    /\ caseWarned = FALSE
    /\ caseResults = <<>>
    /\ caseDiags = <<>>
    /\ casePc = "bind"

\* a createCondGenBlock that makes every block instantiated
createCondGenBlock_instantiated(n, isInstantiated) ==
    Append(caseResults, [item |-> n, isInstantiated |-> TRUE])

\* createCondGenBlock for the clause of item n
createCondGenBlock(n, isInstantiated) ==
    Append(caseResults, [item |-> n, isInstantiated |-> isInstantiated])

\* the inner loop over the expressions of an item: does one of them have a
\* constant equivalent to that of the condition
currentFound(item) ==
    \E i \in 1 .. Len(item.expressions) :
        /\ item.expressions[i] # <<>>
        /\ item.expressions[i][1] = caseCondition[1]

\* fromSyntax up to the second loop
CaseBind ==
    /\ casePc = "bind"
    /\ casePc' = IF caseCondition = <<>> THEN "done" ELSE "items"
    /\ UNCHANGED <<caseCondition, caseItems, caseIsInstantiated, casePassed, caseFound,
                   caseWarned, caseResults, caseDiags>>

\* a pass of the loop over syntax.items
CaseItem ==
    /\ casePc = "items"
    /\ casePassed < Len(caseItems)
    /\ casePassed' = casePassed + 1
    /\ LET n == casePassed + 1
           item == caseItems[n]
       IN  IF item.kind # "StandardCaseItem"
           THEN UNCHANGED <<caseFound, caseWarned, caseResults, caseDiags>>
           ELSE IF currentFound(item) /\ ~caseFound
           THEN /\ caseFound' = TRUE
                /\ caseResults' = createCondGenBlock(n, caseIsInstantiated)
                /\ UNCHANGED <<caseWarned, caseDiags>>
           ELSE /\ IF currentFound(item) /\ ~caseWarned
                   THEN /\ caseDiags' = Append(caseDiags, Diagnostic("CaseGenerateDup"))
                        /\ caseWarned' = TRUE
                   ELSE UNCHANGED <<caseWarned, caseDiags>>
                /\ caseResults' = createCondGenBlock(n, FALSE)
                /\ UNCHANGED caseFound
    /\ UNCHANGED <<caseCondition, caseItems, caseIsInstantiated, casePc>>

\* fromSyntax after the loop: the default block, or the diagnostic
CaseFinish ==
    /\ casePc = "items"
    /\ casePassed = Len(caseItems)
    /\ LET defBlock == defaults(caseItems)
       IN  IF defBlock # {}
           THEN /\ caseResults' = createCondGenBlock(CHOOSE n \in defBlock : TRUE,
                                                     caseIsInstantiated /\ ~caseFound)
                /\ UNCHANGED caseDiags
           ELSE IF ~caseFound
           THEN /\ caseDiags' = Append(caseDiags, Diagnostic("CaseGenerateNoBlock"))
                /\ UNCHANGED caseResults
           ELSE UNCHANGED <<caseResults, caseDiags>>
    /\ casePc' = "done"
    /\ UNCHANGED <<caseCondition, caseItems, caseIsInstantiated, casePassed, caseFound,
                   caseWarned>>

(***************************************************************************)
(* Parameters of a definition and the parameter assignments of an          *)
(* instantiation.  A declaration of the parameter port list has the        *)
(* keyword parameter or localparam or none; one of the body has one of the *)
(* two.  Each declares one value parameter: P1, P2, ... in the header and  *)
(* B1, ... in the body.  An assignment is ordered or named; a named one    *)
(* has a name and may have no expression.  The expression of an assignment *)
(* is told from the others by the position of the assignment.  Diagnostics *)
(* are kept with the assignment they are reported at.                      *)
(***************************************************************************)
RECURSIVE KeywordLists(_, _)
KeywordLists(keywords, n) ==
    IF n = 0 THEN {<<>>}
    ELSE KeywordLists(keywords, n - 1)
             \cup {Append(list, keyword) :
                       list \in KeywordLists(keywords, n - 1), keyword \in keywords}

portName(n) == <<"P", n>>
bodyName(n) == <<"B", n>>
OrderedArgument == [kind |-> "OrderedArgument", name |-> <<>>, hasExpr |-> TRUE]
NamedArgument(name, hasExpr) == [kind |-> "NamedArgument", name |-> name, hasExpr |-> hasExpr]
Arguments_ ==
    {OrderedArgument, NamedArgument(portName(1), FALSE)}
        \cup {NamedArgument(name, TRUE) :
                  name \in {portName(1), portName(2), bodyName(1), <<"X", 1>>}}
RECURSIVE AssignmentLists(_)
AssignmentLists(n) ==
    IF n = 0 THEN {<<>>}
    ELSE AssignmentLists(n - 1)
             \cup {Append(list, argument) :
                       list \in AssignmentLists(n - 1), argument \in Arguments_}

ParamIdle ==
    /\ hasPortParams = FALSE
    /\ portDeclarations = <<>>
    /\ bodyDeclarations = <<>>
    /\ parameters = <<>>
    /\ assignments = <<>>
    /\ orderedAssignments = TRUE
    /\ orderedParams = <<>>
    /\ namedParams = {}
    /\ paramOverrides = {}
    /\ paramDiags = {}
    /\ paramPc = "idle"

ParamInit ==
    /\ hasPortParams \in BOOLEAN
    /\ portDeclarations \in IF hasPortParams
                             THEN KeywordLists({"parameter", "localparam", ""},
                                               MaxPortParams)
                             ELSE {<<>>}
    /\ bodyDeclarations \in KeywordLists({"parameter", "localparam"}, MaxBodyParams)
    /\ parameters = <<>>
    /\ assignments \in AssignmentLists(MaxAssignments)
    /\ orderedAssignments = TRUE
    /\ orderedParams = <<>>
    /\ namedParams = {}
    /\ paramOverrides = {}
    /\ paramDiags = {}
    /\ paramPc = "definition"

\* the local lastLocal after the first n declarations of the port list
RECURSIVE lastLocal(_)
lastLocal(n) ==
    IF n = 0 THEN FALSE
    ELSE IF portDeclarations[n] # "" THEN portDeclarations[n] = "localparam"
    ELSE lastLocal(n - 1)

ParameterSymbol(name, isLocal, isPort) ==
    [name |-> name, isLocalParam |-> isLocal, isPortParam |-> isPort]

\* DefinitionSymbol::fromSyntax: the parameters of the header, then those
\* of the body
DefinitionFromSyntax ==
    /\ paramPc = "definition"
    /\ parameters' =
           [n \in 1 .. Len(portDeclarations) |->
                ParameterSymbol(portName(n), lastLocal(n), TRUE)]
               \o [n \in 1 .. Len(bodyDeclarations) |->
                       ParameterSymbol(bodyName(n),
                                       hasPortParams \/ bodyDeclarations[n] = "localparam",
                                       FALSE)]
    /\ paramPc' = "assignments"
    /\ UNCHANGED <<hasPortParams, portDeclarations, bodyDeclarations, assignments,
                   orderedAssignments, orderedParams, namedParams, paramOverrides,
                   paramDiags>>

ParamDiagnostic(code, argument) == [code |-> code, argument |-> argument]

\* the loop over the parameter assignments from assignment n on; `ordered`
\* and `named` are orderedParams and namedParams so far, as positions of
\* assignments
RECURSIVE collectAssignments(_, _, _, _)
collectAssignments(n, ordered, named, diags) ==
    IF n > Len(assignments)
    THEN [orderedParams |-> ordered, namedParams |-> named, diags |-> diags]
    ELSE IF (assignments[n].kind = "OrderedArgument") # (assignments[1].kind = "OrderedArgument")
    THEN [orderedParams |-> ordered, namedParams |-> named,
          diags |-> diags \cup {ParamDiagnostic("MixingOrderedAndNamedParams", n)}]
    ELSE IF assignments[n].kind = "OrderedArgument"
    THEN collectAssignments(n + 1, Append(ordered, n), named, diags)
    ELSE IF \E m \in named : assignments[m].name = assignments[n].name
    THEN collectAssignments(n + 1, ordered, named,
                            diags \cup {ParamDiagnostic("DuplicateParamAssignment", n)})
    ELSE collectAssignments(n + 1, ordered, named \cup {n}, diags)

\* InstanceSymbol::fromSyntax: the loop over the parameter assignments
CollectAssignments ==
    /\ paramPc = "assignments"
    /\ orderedAssignments' =
           (assignments = <<>> \/ assignments[1].kind = "OrderedArgument")
    /\ \E collected \in {collectAssignments(1, <<>>, {}, {})} :
           /\ orderedParams' = collected.orderedParams
           /\ namedParams' = collected.namedParams
           /\ paramDiags' = collected.diags
    /\ paramPc' = "match"
    /\ UNCHANGED <<hasPortParams, portDeclarations, bodyDeclarations, parameters,
                   assignments, paramOverrides>>

Override(name, argument) == [name |-> name, expr |-> argument]

\* a loop over the ordered assignments that does not skip local parameters
matchOrdered_local(n, orderedIndex, overrides) ==
    [orderedIndex |-> IF Len(parameters) < Len(orderedParams) THEN Len(parameters)
                      ELSE Len(orderedParams),
     overrides |-> {Override(parameters[k].name, orderedParams[k]) :
                        k \in 1 .. (IF Len(parameters) < Len(orderedParams)
                                    THEN Len(parameters) ELSE Len(orderedParams))}]

\* the loop over definition->parameters for ordered assignments, from
\* parameter n on: the overrides, and orderedIndex
RECURSIVE matchOrdered(_, _, _)
matchOrdered(n, orderedIndex, overrides) ==
    IF n > Len(parameters) \/ orderedIndex >= Len(orderedParams)
    THEN [orderedIndex |-> orderedIndex, overrides |-> overrides]
    ELSE IF parameters[n].isLocalParam THEN matchOrdered(n + 1, orderedIndex, overrides)
    ELSE matchOrdered(n + 1, orderedIndex + 1,
                      overrides \cup {Override(parameters[n].name,
                                               orderedParams[orderedIndex + 1])})

\* the named assignment of a parameter, if there is one
namedFor(param) == {m \in namedParams : assignments[m].name = param.name}

\* InstanceSymbol::fromSyntax: each assignment is matched to a parameter
MatchParameters ==
    /\ paramPc = "match"
    /\ IF orderedAssignments
       THEN \E matched \in {matchOrdered(1, 0, {})} :
                /\ paramOverrides' = matched.overrides
                /\ paramDiags' =
                       IF matched.orderedIndex < Len(orderedParams)
                       THEN paramDiags
                                \cup {ParamDiagnostic("TooManyParamAssignments",
                                                      orderedParams[matched.orderedIndex + 1])}
                       ELSE paramDiags
       ELSE LET named == {n \in 1 .. Len(parameters) : namedFor(parameters[n]) # {}}
                locals == {n \in named : parameters[n].isLocalParam}
                used == UNION {namedFor(parameters[n]) : n \in named}
            IN  /\ paramOverrides' =
                       UNION {{Override(parameters[n].name, m) :
                                   m \in {a \in namedFor(parameters[n]) :
                                              assignments[a].hasExpr}} :
                                  n \in named \ locals}
                /\ paramDiags' =
                       paramDiags
                           \cup UNION {{ParamDiagnostic(IF parameters[n].isPortParam
                                                        THEN "AssignedToLocalPortParam"
                                                        ELSE "AssignedToLocalBodyParam", m) :
                                            m \in namedFor(parameters[n])} :
                                           n \in locals}
                           \cup {ParamDiagnostic("ParameterDoesNotExist", m) :
                                     m \in namedParams \ used}
    /\ paramPc' = "done"
    /\ UNCHANGED <<hasPortParams, portDeclarations, bodyDeclarations, parameters,
                   assignments, orderedAssignments, orderedParams, namedParams>>

(***************************************************************************)
(* Interface ports: PortConnectionBuilder::setInterface.  The instance     *)
(* being elaborated is an element of up to MaxDims nested instance arrays  *)
(* (instanceDims, outermost first; arrayPath holds its index in each), its *)
(* interface port may be an array, and the symbol connected is an          *)
(* interface instance, an instance of something else, or up to MaxDims     *)
(* nested arrays of them, possibly reached through an interface port of    *)
(* the instantiating scope.  An array holds one element for each index of  *)
(* its range, the element of the lowest index first.                       *)
(***************************************************************************)
DimRanges ==
    {ConstantRange(0, 1), ConstantRange(1, 0), ConstantRange(1, 2), ConstantRange(2, 1),
     ConstantRange(0, 2)}
Dims == UNION {[1 .. n -> DimRanges] : n \in 0 .. MaxDims}

\* an interface port: its interface definition, if any, and declared range
InterfacePortSymbol(interfaceDef, declaredRange) ==
    [interfaceDef |-> interfaceDef, declaredRange |-> declaredRange, connection |-> <<>>]
\* a symbol to connect: the ranges of the arrays around it, the kind and the
\* definition of the innermost elements, and whether it is reached through
\* an interface port, which may have no connection
ConnectedSymbol(via, dims, kind, definition) ==
    [via |-> via, dims |-> dims, kind |-> kind, definition |-> definition]
\* an element of the connected symbol: the positions taken in its arrays
ElementAt(positions) == [elementAt |-> positions]
Wild == 0 - 1

InterfacePorts ==
    {InterfacePortSymbol(<<"I">>, declared) : declared \in {<<>>, <<ConstantRange(1, 0)>>}}
        \cup {InterfacePortSymbol(<<>>, <<>>)}
ConnectedSymbols ==
    {ConnectedSymbol("", dims, "InterfaceInstance", "I") : dims \in Dims}
        \cup {ConnectedSymbol(via, <<ConstantRange(1, 0)>>, kind, definition) :
                  via \in {"", "InterfacePort", "UnconnectedInterfacePort"},
                  kind \in {"InterfaceInstance", "ModuleInstance"},
                  definition \in {"I", "J"}}
\* the instance arrays and the path of the instance in them
InstancePaths ==
    UNION {{[dims |-> d, path |-> path] :
                path \in {q \in [1 .. Len(d) -> 0 .. 2] :
                              \A n \in 1 .. Len(d) : containsPoint(d[n], q[n])}} :
               d \in Dims}

IfaceIdle ==
    /\ interfacePort = InterfacePortSymbol(<<>>, <<>>)
    /\ connected = ConnectedSymbol("", <<>>, "", "")
    /\ instanceDims = <<>>
    /\ arrayPath = <<>>
    /\ sliced = <<>>
    /\ indices = <<>>
    /\ ifaceDiags = <<>>
    /\ ifacePc = "idle"

IfaceInit ==
    /\ interfacePort \in InterfacePorts
    /\ connected \in ConnectedSymbols
    /\ \E instance \in InstancePaths :
           instanceDims = instance.dims /\ arrayPath = instance.path
    /\ sliced = <<>>
    /\ indices = <<>>
    /\ ifaceDiags = <<>>
    /\ ifacePc = "setInterface"

\* PortConnectionBuilder::areDimSizesEqual
areDimSizesEqual(left, right) ==
    /\ Len(left) = Len(right)
    /\ \A i \in 1 .. Len(left) : width(left[i]) = width(right[i])

\* the index computed in one pass of the slicing loop
sliceIndex(instanceDim, pathIndex, range) ==
    LET index == translateIndex(instanceDim, pathIndex)
    IN  IF ~isLittleEndian(range) THEN upper(range) - index ELSE index

\* setInterface up to the slicing loop
SetInterface ==
    /\ ifacePc = "setInterface"
    /\ IF interfacePort.interfaceDef = <<>> \/ connected.via = "UnconnectedInterfacePort"
       THEN ifacePc' = "done" /\ UNCHANGED <<interfacePort, ifaceDiags>>
       ELSE IF connected.kind # "InterfaceInstance"
       THEN /\ ifaceDiags' = Append(ifaceDiags, "NotAnInterface")
            /\ ifacePc' = "done" /\ UNCHANGED interfacePort
       ELSE IF connected.definition # interfacePort.interfaceDef[1]
       THEN /\ ifaceDiags' = Append(ifaceDiags, "InterfacePortTypeMismatch")
            /\ ifacePc' = "done" /\ UNCHANGED interfacePort
       ELSE IF areDimSizesEqual(interfacePort.declaredRange, connected.dims)
       THEN /\ interfacePort' = [interfacePort EXCEPT !.connection = <<ElementAt(<<>>)>>]
            /\ ifacePc' = "done" /\ UNCHANGED ifaceDiags
       ELSE IF /\ Len(connected.dims) >= Len(instanceDims)
               /\ areDimSizesEqual(SubSeq(connected.dims, 1, Len(instanceDims)),
                                   instanceDims)
               /\ areDimSizesEqual(SubSeq(connected.dims, Len(instanceDims) + 1,
                                          Len(connected.dims)),
                                   interfacePort.declaredRange)
       THEN ifacePc' = "slice" /\ UNCHANGED <<interfacePort, ifaceDiags>>
       ELSE /\ ifaceDiags' = Append(ifaceDiags, "PortConnDimensionsMismatch")
            /\ ifacePc' = "done" /\ UNCHANGED interfacePort
    /\ UNCHANGED <<connected, instanceDims, arrayPath, sliced, indices>>

\* what array.elements[size_t(index)] may read: the element at the index,
\* or, for an index that the array does not have, anything: an element of
\* the array, or something that is none (Wild)
ElementReads == {Wild} \cup (0 .. 2)
elementRead(range, index, read) ==
    IF index \in 0 .. width(range) - 1 THEN read = index
    ELSE read = Wild \/ read \in 0 .. width(range) - 1

\* one pass of the slicing loop, and the connection after the last
SliceDimension(read) ==
    /\ ifacePc = "slice"
    /\ IF Len(sliced) = Len(arrayPath)
       THEN /\ interfacePort' = [interfacePort EXCEPT !.connection = <<ElementAt(sliced)>>]
            /\ ifacePc' = "done"
            /\ UNCHANGED <<sliced, indices>>
       ELSE \E index \in {sliceIndex(instanceDims[Len(sliced) + 1],
                                     arrayPath[Len(sliced) + 1],
                                     connected.dims[Len(sliced) + 1])} :
                /\ elementRead(connected.dims[Len(sliced) + 1], index, read)
                /\ indices' = Append(indices, index)
                /\ sliced' = Append(sliced, read)
                /\ ifacePc' = IF read = Wild THEN "undefined" ELSE "slice"
                /\ UNCHANGED interfacePort
    /\ UNCHANGED <<connected, instanceDims, arrayPath, ifaceDiags>>

(***************************************************************************)
(* Port connections: PortConnectionBuilder of PortBuilder.h.  A connection *)
(* syntax is known by its position in the list of the instantiation; a     *)
(* source location or range inside it is that position, and                *)
(* instance.location is 0.                                                 *)
(***************************************************************************)
OrderedPortConnection(e) ==
    [kind |-> "OrderedPortConnection", name |-> "", openParen |-> FALSE, expr |-> e]
NamedPortConnection(name, openParen, e) ==
    [kind |-> "NamedPortConnection", name |-> name, openParen |-> openParen,
     expr |-> e]
WildcardPortConnection ==
    [kind |-> "WildcardPortConnection", name |-> "", openParen |-> FALSE,
     expr |-> FALSE]

PortNames == {"a", "b"}

\* (e), (), .a(e), .a(), .a, .b and .*
PortConnections ==
    {OrderedPortConnection(TRUE), OrderedPortConnection(FALSE),
     NamedPortConnection("a", TRUE, TRUE), NamedPortConnection("a", TRUE, FALSE),
     NamedPortConnection("a", FALSE, FALSE), NamedPortConnection("b", FALSE, FALSE),
     WildcardPortConnection}

ConnectionLists == UNION {[1 .. n -> PortConnections] : n \in 0 .. MaxConnections}

PortSymbol(name, defaultValue, type) ==
    [name |-> name, defaultValue |-> defaultValue, type |-> type]

\* the ports of the instantiated definition: a; a and b; a and an unnamed
\* port; a port of the error type
PortLists ==
    {<<PortSymbol("a", d, Logic)>> : d \in BOOLEAN}
        \cup {<<PortSymbol("a", d, Logic), PortSymbol("b", e, Logic)>> :
                 d \in BOOLEAN, e \in BOOLEAN}
        \cup {<<PortSymbol("a", d, Logic), PortSymbol("", FALSE, Logic)>> :
                 d \in BOOLEAN}
        \cup {<<PortSymbol("a", FALSE, ErrorType)>>}

\* what the instantiating scope holds for a name: nothing, a member, or a
\* name that only a wildcard import of a package makes visible
NotFound == [found |-> "no", type |-> ErrorType]
MemberOfScope(type) == [found |-> "member", type |-> type]
WildcardImported(type) == [found |-> "wildcardImport", type |-> type]

\* the scopes: the names of the ports are all missing, all members of type
\* reg or of type int, or all visible by a wildcard import
InstanceScopes ==
    {[n \in PortNames |-> e] :
        e \in {NotFound, MemberOfScope(Reg), MemberOfScope(IntType),
               WildcardImported(Logic)}}

\* the connection of a port: none, an expression of the connection at
\* position `at`, the default value of the port, or the named value an
\* implicit connection found
NoConnection == [kind |-> "none", at |-> 0]
PortConnection(kind, at) == [kind |-> kind, at |-> at]

PortDiagnostic(code, at, name) == [code |-> code, at |-> at, name |-> name]

NewBuilder ==
    [hasConnections |-> FALSE, usingOrdered |-> TRUE, orderedConns |-> <<>>,
     namedConns |-> {}, hasWildcard |-> FALSE, wildcardRange |-> 0,
     diags |-> {}, stopped |-> FALSE]

PortIdle ==
    /\ portConnections = <<>>
    /\ ports = <<>>
    /\ instanceScope = [n \in PortNames |-> NotFound]
    /\ usingOrdered = TRUE
    /\ orderedConns = <<>>
    /\ namedConns = {}
    /\ hasWildcard = FALSE
    /\ wildcardRange = 0
    /\ orderedPortIndex = 0
    /\ warnedAboutUnnamed = FALSE
    /\ connection = <<>>
    /\ portDiags = {}
    /\ portPc = "idle"

PortInit ==
    /\ portConnections \in ConnectionLists
    /\ ports \in PortLists
    /\ instanceScope \in InstanceScopes
    /\ usingOrdered = TRUE
    /\ orderedConns = <<>>
    /\ namedConns = {}
    /\ hasWildcard = FALSE
    /\ wildcardRange = 0
    /\ orderedPortIndex = 0
    /\ warnedAboutUnnamed = FALSE
    /\ connection = <<>>
    /\ portDiags = {}
    /\ portPc = "start"

\* the constructor at a connection of the other style, going on with the
\* connections after it
mixing_continue(b, n) ==
    [b EXCEPT !.diags = @ \cup {PortDiagnostic("MixingOrderedAndNamedPorts", n, "")}]

\* the constructor at a connection of the other style: the diagnostic and
\* the break
mixing(b, n) ==
    [b EXCEPT !.diags = @ \cup {PortDiagnostic("MixingOrderedAndNamedPorts", n, "")},
              !.stopped = TRUE]

\* the constructor at a connection of the style in use
addConnection(b, conn, n) ==
    IF conn.kind = "OrderedPortConnection"
    THEN [b EXCEPT !.orderedConns = Append(@, n)]
    ELSE IF conn.kind = "WildcardPortConnection"
    THEN IF ~b.hasWildcard
         THEN [b EXCEPT !.hasWildcard = TRUE, !.wildcardRange = n]
         ELSE [b EXCEPT !.diags =
                   @ \cup {PortDiagnostic("DuplicateWildcardPortConnection", n, "")}]
    ELSE IF conn.name = "" THEN b
    ELSE IF \E c \in b.namedConns : c.name = conn.name
    THEN [b EXCEPT !.diags =
              @ \cup {PortDiagnostic("DuplicatePortConnection", n, conn.name)}]
    ELSE [b EXCEPT !.namedConns =
              @ \cup {[name |-> conn.name, conn |-> n, used |-> FALSE]}]

\* one pass of the loop of the constructor
visitConnection(b, conn, n) ==
    LET isOrdered == conn.kind = "OrderedPortConnection"
    IN  IF ~b.hasConnections
        THEN addConnection([b EXCEPT !.hasConnections = TRUE,
                                     !.usingOrdered = isOrdered], conn, n)
        ELSE IF isOrdered # b.usingOrdered THEN mixing(b, n)
        ELSE addConnection(b, conn, n)

RECURSIVE collectConnections(_, _, _)
collectConnections(conns, n, b) ==
    IF n > Len(conns) \/ b.stopped THEN b
    ELSE collectConnections(conns, n + 1, visitConnection(b, conns[n], n))

\* PortConnectionBuilder::PortConnectionBuilder
Construct ==
    /\ portPc = "start"
    /\ \E b \in {collectConnections(portConnections, 1, NewBuilder)} :
          /\ usingOrdered' = b.usingOrdered
          /\ orderedConns' = b.orderedConns
          /\ namedConns' = b.namedConns
          /\ hasWildcard' = b.hasWildcard
          /\ wildcardRange' = b.wildcardRange
          /\ portDiags' = b.diags
    /\ portPc' = "connecting"
    /\ UNCHANGED <<portConnections, ports, instanceScope, orderedPortIndex,
                   warnedAboutUnnamed, connection>>

\* Scope::lookupUnqualifiedName in the instantiating scope
lookupUnqualifiedName(name, flags) ==
    LET entry == instanceScope[name]
    IN  IF \/ entry.found = "member"
           \/ entry.found = "wildcardImport" /\ flags # "DisallowWildcardImport"
        THEN entry
        ELSE NotFound

\* what setConnection does for one port: its connection, the diagnostics
\* added, and warnedAboutUnnamed afterwards
Outcome(conn, diags, warned) == [conn |-> conn, diags |-> diags, warned |-> warned]

\* port.setConnection(port.defaultValue, attrs)
defaultValue(port, at) ==
    IF port.defaultValue THEN PortConnection("default", at) ELSE NoConnection

\* implicitNamedPort connecting whatever the lookup found, of any type
implicitNamedPort_anyType(port, range, isWildcard) ==
    LET flags == IF isWildcard THEN "DisallowWildcardImport" ELSE "None"
        symbol == lookupUnqualifiedName(port.name, flags)
    IN  IF symbol.found = "no"
        THEN IF isWildcard /\ port.defaultValue
             THEN Outcome(PortConnection("default", range), {}, warnedAboutUnnamed)
             ELSE Outcome(NoConnection,
                          {PortDiagnostic("ImplicitNamedPortNotFound", range, port.name)},
                          warnedAboutUnnamed)
        ELSE IF isError(port.type) THEN Outcome(NoConnection, {}, warnedAboutUnnamed)
        ELSE Outcome(PortConnection("implicit", range), {}, warnedAboutUnnamed)

\* PortConnectionBuilder::implicitNamedPort
implicitNamedPort(port, range, isWildcard) ==
    LET flags == IF isWildcard THEN "DisallowWildcardImport" ELSE "None"
        symbol == lookupUnqualifiedName(port.name, flags)
    IN  IF symbol.found = "no"
        THEN IF isWildcard /\ port.defaultValue
             THEN Outcome(PortConnection("default", range), {}, warnedAboutUnnamed)
             ELSE Outcome(NoConnection,
                          {PortDiagnostic("ImplicitNamedPortNotFound", range, port.name)},
                          warnedAboutUnnamed)
        ELSE IF isError(port.type) THEN Outcome(NoConnection, {}, warnedAboutUnnamed)
        ELSE IF ~isEquivalent(symbol.type, port.type)
        THEN Outcome(NoConnection,
                     {PortDiagnostic("ImplicitNamedPortTypeMismatch", range, port.name)},
                     warnedAboutUnnamed)
        ELSE Outcome(PortConnection("implicit", range), {}, warnedAboutUnnamed)

\* the UnconnectedUnnamedPort warning, given once
unconnectedUnnamed ==
    Outcome(NoConnection,
            IF warnedAboutUnnamed THEN {}
            ELSE {PortDiagnostic("UnconnectedUnnamedPort", 0, "")},
            TRUE)

\* setConnection(PortSymbol&) with ordered connections
setOrderedConnection(port) ==
    IF orderedPortIndex >= Len(orderedConns)
    THEN IF port.defaultValue
         THEN Outcome(PortConnection("default", 0), {}, warnedAboutUnnamed)
         ELSE IF port.name = "" THEN unconnectedUnnamed
         ELSE Outcome(NoConnection,
                      {PortDiagnostic("UnconnectedNamedPort", 0, port.name)},
                      warnedAboutUnnamed)
    ELSE LET opc == orderedConns[orderedPortIndex + 1]
         IN  IF portConnections[opc].expr
             THEN Outcome(PortConnection("expr", opc), {}, warnedAboutUnnamed)
             ELSE Outcome(defaultValue(port, opc), {}, warnedAboutUnnamed)

\* setConnection(PortSymbol&) with the named connection `it` found
setNamedConnection(port, it) ==
    IF portConnections[it.conn].openParen
    THEN IF portConnections[it.conn].expr
         THEN Outcome(PortConnection("expr", it.conn), {}, warnedAboutUnnamed)
         ELSE Outcome(NoConnection, {}, warnedAboutUnnamed)
    ELSE implicitNamedPort(port, it.conn, FALSE)

\* PortConnectionBuilder::setConnection(PortSymbol&)
setConnection(port) ==
    IF usingOrdered THEN setOrderedConnection(port)
    ELSE IF port.name = "" THEN unconnectedUnnamed
    ELSE IF ~\E c \in namedConns : c.name = port.name
    THEN IF hasWildcard THEN implicitNamedPort(port, wildcardRange, TRUE)
         ELSE IF port.defaultValue
         THEN Outcome(PortConnection("default", 0), {}, warnedAboutUnnamed)
         ELSE Outcome(NoConnection,
                      {PortDiagnostic("UnconnectedNamedPort", 0, port.name)},
                      warnedAboutUnnamed)
    ELSE setNamedConnection(port, CHOOSE c \in namedConns : c.name = port.name)

\* setConnection for the next port of the instance
SetConnection ==
    /\ portPc = "connecting"
    /\ Len(connection) < Len(ports)
    /\ \E port \in {ports[Len(connection) + 1]} :
          /\ \E outcome \in {setConnection(port)} :
                /\ connection' = Append(connection, outcome.conn)
                /\ portDiags' = portDiags \cup outcome.diags
                /\ warnedAboutUnnamed' = outcome.warned
          /\ orderedPortIndex' = IF usingOrdered THEN orderedPortIndex + 1 ELSE orderedPortIndex
          /\ namedConns' =
                IF usingOrdered THEN namedConns
                ELSE {IF c.name = port.name THEN [c EXCEPT !.used = TRUE] ELSE c :
                          c \in namedConns}
    /\ UNCHANGED <<portConnections, ports, instanceScope, usingOrdered,
                   orderedConns, hasWildcard, wildcardRange, portPc>>

\* PortConnectionBuilder::finalize
finalize ==
    IF usingOrdered
    THEN IF orderedPortIndex < Len(orderedConns)
         THEN {PortDiagnostic("TooManyPortConnections", orderedConns[orderedPortIndex + 1], "")}
         ELSE {}
    ELSE {PortDiagnostic("PortDoesNotExist", c.conn, c.name) :
              c \in {u \in namedConns : ~u.used}}

Finalize ==
    /\ portPc = "connecting"
    /\ Len(connection) = Len(ports)
    /\ portDiags' = portDiags \cup finalize
    /\ portPc' = "done"
    /\ UNCHANGED <<portConnections, ports, instanceScope, usingOrdered,
                   orderedConns, namedConns, hasWildcard, wildcardRange,
                   orderedPortIndex, warnedAboutUnnamed, connection>>

\* the subsystems of elaboration, and those of types and evaluation
ifaceVars == <<interfacePort, connected, instanceDims, arrayPath, sliced, indices,
               ifaceDiags, ifacePc>>
elabVars == <<genVars, caseVars, paramVars, portVars, ifaceVars>>
ElabIdle == GenIdle /\ CaseIdle /\ ParamIdle /\ PortIdle /\ IfaceIdle
coreVars == <<typeVars, canonVars, declVars, unionVars, enumVars, evalVars>>
CoreIdle == TypeIdle /\ DeclIdle /\ UnionIdle /\ EnumIdle /\ EvalIdle

(***************************************************************************)
(* Specifications.  Each one runs one subsystem and leaves the others      *)
(* idle.                                                                   *)
(***************************************************************************)
vars == <<coreVars, elabVars>>

Init == TypeInit /\ CanonIdle /\ DeclIdle /\ UnionIdle /\ EnumIdle /\ EvalIdle /\ ElabIdle

Next == Compare /\ UNCHANGED <<canonVars, declVars, unionVars, enumVars, evalVars, elabVars>>

Spec == Init /\ [][Next]_vars

CanonicalInit == CanonInit /\ DeclIdle /\ UnionIdle /\ EnumIdle /\ EvalIdle /\ ElabIdle

CanonicalNext ==
    \/ ResolveCanonicalEnter /\ UNCHANGED <<declVars, unionVars, enumVars, evalVars, elabVars>>
    \/ ResolveCanonicalLoop /\ UNCHANGED <<declVars, unionVars, enumVars, evalVars, elabVars>>
    \/ CanonicalKnown /\ UNCHANGED <<declVars, unionVars, enumVars, evalVars, elabVars>>
    \/ CanonicalOfCanonical /\ UNCHANGED <<declVars, unionVars, enumVars, evalVars, elabVars>>

SpecCanonical == CanonicalInit /\ [][CanonicalNext]_vars

DeclaredInit == DeclInit /\ TypeIdle /\ UnionIdle /\ EnumIdle /\ EvalIdle /\ ElabIdle

DeclaredNext ==
    \/ (\E i \in DeclIds : GetType(i)) /\ UNCHANGED <<typeVars, canonVars, unionVars, enumVars, evalVars, elabVars>>
    \/ (\E i \in DeclIds : GetInitializer(i)) /\ UNCHANGED <<typeVars, canonVars, unionVars, enumVars, evalVars, elabVars>>
    \/ ResolveTypeEnter /\ UNCHANGED <<typeVars, canonVars, unionVars, enumVars, evalVars, elabVars>>
    \/ ResolveAtEnter /\ UNCHANGED <<typeVars, canonVars, unionVars, enumVars, evalVars, elabVars>>
    \/ ResolveAtGuard /\ UNCHANGED <<typeVars, canonVars, unionVars, enumVars, evalVars, elabVars>>
    \/ BindRecursive /\ UNCHANGED <<typeVars, canonVars, unionVars, enumVars, evalVars, elabVars>>
    \/ BindRequestsType /\ UNCHANGED <<typeVars, canonVars, unionVars, enumVars, evalVars, elabVars>>
    \/ BindInitializer /\ UNCHANGED <<typeVars, canonVars, unionVars, enumVars, evalVars, elabVars>>

SpecDeclared == DeclaredInit /\ [][DeclaredNext]_vars

DeclaredResetInit ==
    DeclResetInit /\ TypeIdle /\ UnionIdle /\ EnumIdle /\ EvalIdle /\ ElabIdle
DeclaredResetNext ==
    \/ (\E i \in DeclIds : GetType(i)) /\ UNCHANGED <<typeVars, canonVars, unionVars, enumVars, evalVars, elabVars>>
    \/ (\E i \in DeclIds : GetInitializer(i)) /\ UNCHANGED <<typeVars, canonVars, unionVars, enumVars, evalVars, elabVars>>
    \/ ResolveTypeEnter /\ UNCHANGED <<typeVars, canonVars, unionVars, enumVars, evalVars, elabVars>>
    \/ ResolveAtEnter /\ UNCHANGED <<typeVars, canonVars, unionVars, enumVars, evalVars, elabVars>>
    \/ ResolveAtGuard /\ UNCHANGED <<typeVars, canonVars, unionVars, enumVars, evalVars, elabVars>>
    \/ BindInitializer /\ UNCHANGED <<typeVars, canonVars, unionVars, enumVars, evalVars, elabVars>>
    \/ (\E i \in DeclIds, d \in NewDimensions : SetDimensionSyntax(i, d))
           /\ UNCHANGED <<typeVars, canonVars, unionVars, enumVars, evalVars, elabVars>>
    \/ (\E i \in DeclIds : ClearResolved(i))
           /\ UNCHANGED <<typeVars, canonVars, unionVars, enumVars, evalVars, elabVars>>
SpecDeclaredResets == DeclaredResetInit /\ [][DeclaredResetNext]_vars

UnionInit == UnionIdle /\ TypeIdle /\ DeclIdle /\ EnumIdle /\ EvalIdle /\ ElabIdle

UnionNext ==
    \/ (\E type \in MemberTypes, declarators \in DeclaratorLists :
            UnionMember(type, declarators))
           /\ UNCHANGED <<typeVars, canonVars, declVars, enumVars, evalVars, elabVars>>
    \/ (\E signed \in BOOLEAN, dimensions \in PackedDimensions :
            UnionFinish(signed, dimensions))
           /\ UNCHANGED <<typeVars, canonVars, declVars, enumVars, evalVars, elabVars>>

SpecUnion == UnionInit /\ [][UnionNext]_vars

EnumerationInit == EnumInit /\ TypeIdle /\ DeclIdle /\ UnionIdle /\ EvalIdle /\ ElabIdle

EnumerationNext ==
    \/ (\E cv \in {<<>>} \cup {<<v>> : v \in SVInts(enumWidth)} : setInitializer(cv))
           /\ UNCHANGED <<typeVars, canonVars, declVars, unionVars, evalVars, elabVars>>
    \/ inferValue /\ UNCHANGED <<typeVars, canonVars, declVars, unionVars, evalVars, elabVars>>

SpecEnum == EnumerationInit /\ [][EnumerationNext]_vars

EvaluationInit == EvalInit /\ TypeIdle /\ DeclIdle /\ UnionIdle /\ EnumIdle /\ ElabIdle
EvaluationNext ==
    (\E garbage \in Garbage : Evaluate(garbage))
        /\ UNCHANGED <<typeVars, canonVars, declVars, unionVars, enumVars, elabVars>>
SpecEval == EvaluationInit /\ [][EvaluationNext]_vars

EffectsInit == EffectInit /\ TypeIdle /\ DeclIdle /\ UnionIdle /\ EnumIdle /\ ElabIdle
EffectsNext ==
    (\E garbage \in Garbage : EvaluateInSession(garbage))
        /\ UNCHANGED <<typeVars, canonVars, declVars, unionVars, enumVars, elabVars>>
SpecEffects == EffectsInit /\ [][EffectsNext]_vars

ArrayComparingInit ==
    ArrayCompareInit /\ TypeIdle /\ DeclIdle /\ UnionIdle /\ EnumIdle /\ ElabIdle
ArrayComparingNext ==
    (\E garbage \in Garbage : Evaluate(garbage))
        /\ UNCHANGED <<typeVars, canonVars, declVars, unionVars, enumVars, elabVars>>
SpecArrayCompare == ArrayComparingInit /\ [][ArrayComparingNext]_vars

RangeSelectingInit ==
    RangeSelectInit /\ TypeIdle /\ DeclIdle /\ UnionIdle /\ EnumIdle /\ ElabIdle
RangeSelectingNext ==
    (\E garbage \in Garbage : Evaluate(garbage))
        /\ UNCHANGED <<typeVars, canonVars, declVars, unionVars, enumVars, elabVars>>
SpecRangeSelect == RangeSelectingInit /\ [][RangeSelectingNext]_vars

AssignmentInit == SessionInit /\ TypeIdle /\ DeclIdle /\ UnionIdle /\ EnumIdle /\ ElabIdle
AssignmentNext ==
    (\E garbage \in Garbage : EvaluateInSession(garbage))
        /\ UNCHANGED <<typeVars, canonVars, declVars, unionVars, enumVars, elabVars>>
SpecAssignment == AssignmentInit /\ [][AssignmentNext]_vars

CallingInit == CallInit /\ TypeIdle /\ DeclIdle /\ UnionIdle /\ EnumIdle /\ ElabIdle
CallingNext ==
    \/ (\E garbage \in Garbage : CallEnter(garbage))
           /\ UNCHANGED <<typeVars, canonVars, declVars, unionVars, enumVars, elabVars>>
    \/ (\E garbage \in Garbage : CallBody(garbage))
           /\ UNCHANGED <<typeVars, canonVars, declVars, unionVars, enumVars, elabVars>>
    \/ CallReturn /\ UNCHANGED <<typeVars, canonVars, declVars, unionVars, enumVars, elabVars>>
SpecCall == CallingInit /\ [][CallingNext]_vars

VerifyingInit == VerifyInit /\ TypeIdle /\ DeclIdle /\ UnionIdle /\ EnumIdle /\ ElabIdle
VerifyingNext ==
    Verify /\ UNCHANGED <<typeVars, canonVars, declVars, unionVars, enumVars, elabVars>>
SpecVerify == VerifyingInit /\ [][VerifyingNext]_vars

VerifyingCallInit ==
    VerifyCallInit /\ TypeIdle /\ DeclIdle /\ UnionIdle /\ EnumIdle /\ ElabIdle
VerifyingCallNext ==
    \/ VerifyCallEnter
           /\ UNCHANGED <<typeVars, canonVars, declVars, unionVars, enumVars, elabVars>>
    \/ VerifyCallBody
           /\ UNCHANGED <<typeVars, canonVars, declVars, unionVars, enumVars, elabVars>>
    \/ VerifyCallReturn
           /\ UNCHANGED <<typeVars, canonVars, declVars, unionVars, enumVars, elabVars>>
SpecVerifyCall == VerifyingCallInit /\ [][VerifyingCallNext]_vars
\* verification is one sequential computation: it takes its next step as
\* long as it has one
SpecVerifyCallFair == SpecVerifyCall /\ WF_vars(VerifyingCallNext)

\* a call is either evaluated or verified
CallFramesInit == CallingInit \/ VerifyingCallInit
CallFramesNext == CallingNext \/ VerifyingCallNext
SpecCallFrames == CallFramesInit /\ [][CallFramesNext]_vars

LoopGenerateInit == GenInit /\ CoreIdle /\ CaseIdle /\ ParamIdle /\ PortIdle /\ IfaceIdle
LoopGenerateNext ==
    \/ GenerateBind /\ UNCHANGED <<coreVars, caseVars, paramVars, portVars, ifaceVars>>
    \/ GenerateStop /\ UNCHANGED <<coreVars, caseVars, paramVars, portVars, ifaceVars>>
    \/ GenerateIter /\ UNCHANGED <<coreVars, caseVars, paramVars, portVars, ifaceVars>>
    \/ GenerateFinish /\ UNCHANGED <<coreVars, caseVars, paramVars, portVars, ifaceVars>>
SpecLoopGenerate == LoopGenerateInit /\ [][LoopGenerateNext]_vars
\* fromSyntax is one sequential computation: it takes its next step as long
\* as it has one
SpecLoopGenerateFair == SpecLoopGenerate /\ WF_vars(LoopGenerateNext)

CaseGenerateInit == CaseInit /\ CoreIdle /\ GenIdle /\ ParamIdle /\ PortIdle /\ IfaceIdle
CaseGenerateNext ==
    \/ CaseBind /\ UNCHANGED <<coreVars, genVars, paramVars, portVars, ifaceVars>>
    \/ CaseItem /\ UNCHANGED <<coreVars, genVars, paramVars, portVars, ifaceVars>>
    \/ CaseFinish /\ UNCHANGED <<coreVars, genVars, paramVars, portVars, ifaceVars>>
SpecCaseGenerate == CaseGenerateInit /\ [][CaseGenerateNext]_vars

ParameterInit == ParamInit /\ CoreIdle /\ GenIdle /\ CaseIdle /\ PortIdle /\ IfaceIdle
ParameterNext ==
    \/ DefinitionFromSyntax /\ UNCHANGED <<coreVars, genVars, caseVars, portVars, ifaceVars>>
    \/ CollectAssignments /\ UNCHANGED <<coreVars, genVars, caseVars, portVars, ifaceVars>>
    \/ MatchParameters /\ UNCHANGED <<coreVars, genVars, caseVars, portVars, ifaceVars>>
SpecParameters == ParameterInit /\ [][ParameterNext]_vars

PortConnectionInit ==
    PortInit /\ CoreIdle /\ GenIdle /\ CaseIdle /\ ParamIdle /\ IfaceIdle

PortConnectionNext ==
    \/ Construct /\ UNCHANGED <<coreVars, genVars, caseVars, paramVars, ifaceVars>>
    \/ SetConnection /\ UNCHANGED <<coreVars, genVars, caseVars, paramVars, ifaceVars>>
    \/ Finalize /\ UNCHANGED <<coreVars, genVars, caseVars, paramVars, ifaceVars>>

SpecPorts == PortConnectionInit /\ [][PortConnectionNext]_vars

InterfaceInit == IfaceInit /\ CoreIdle /\ GenIdle /\ CaseIdle /\ ParamIdle /\ PortIdle
InterfaceNext ==
    \/ SetInterface /\ UNCHANGED <<coreVars, genVars, caseVars, paramVars, portVars>>
    \/ (\E read \in ElementReads : SliceDimension(read))
           /\ UNCHANGED <<coreVars, genVars, caseVars, paramVars, portVars>>
SpecInterfaces == InterfaceInit /\ [][InterfaceNext]_vars

(***************************************************************************)
(* Claims.                                                                 *)
(***************************************************************************)

\* C1: for all types A and B, compared through their canonical types,
\* isMatching(A,B) implies isEquivalent(A,B), which implies
\* isAssignmentCompatible(A,B), which implies isCastCompatible(A,B).
RelationLattice ==
    tpc = "compared" =>
        /\ rel.matching => rel.equivalent
        /\ rel.equivalent => rel.assignmentCompatible
        /\ rel.assignmentCompatible => rel.castCompatible

\* two different types that match only by the real/realtime synonym rule
RelationLatticeWitness ==
    /\ tpc = "compared"
    /\ isFloating(lhs) /\ getCanonicalType(lhs) # getCanonicalType(rhs)
    /\ rel.matching /\ rel.castCompatible

\* C2: for every type reached through a finite acyclic chain of aliases,
\* canonical-type resolution terminates (each step before the end can be
\* taken, and the loop runs at most once per alias of the chain), returns a
\* type that is not an alias, and canonical(canonical(T)) = canonical(T).
CanonicalResolution ==
    /\ iters <= aliasDepth(lhs)
    /\ tpc # "done" => ENABLED CanonNext
    /\ tpc \in {"resolved", "done"} => ~isAlias(canonical[1])
    /\ tpc = "done" => rhs = canonical[1]

\* a chain of two aliases has been resolved and canonicalised again
CanonicalResolutionWitness ==
    /\ tpc = "done"
    /\ isAlias(lhs) /\ isAlias(targetType(lhs))
    /\ iters = 2

\* C3: isMatching(A,B) = isMatching(B,A) and
\* isEquivalent(A,B) = isEquivalent(B,A), for all types A and B.
RelationSymmetry ==
    tpc = "compared" =>
        /\ rel.matching = rel.matchingRev
        /\ rel.equivalent = rel.equivalentRev

\* a predefined integer on the left matching a vector on the right
RelationSymmetryWitness ==
    /\ tpc = "compared"
    /\ isPredefinedInteger(lhs) /\ isPackedArray(rhs)
    /\ rel.matching /\ rel.matchingRev

\* C5: isCastCompatible(L,R) is true exactly when L is assignment-compatible
\* with R, or L is an enum and R is integral or floating, or one of L and R
\* is the string type and the other an integral type.
CastCompatibleDefinition ==
    tpc = "compared" =>
        rel.castCompatible =
            \/ rel.assignmentCompatible
            \/ isEnum(lhs) /\ (isIntegral(rhs) \/ isFloating(rhs))
            \/ isString(lhs) /\ isIntegral(rhs)
            \/ isString(rhs) /\ isIntegral(lhs)

sameVectorTraits(a, b) ==
    /\ getBitWidth(a) = getBitWidth(b)
    /\ isSigned(a) = isSigned(b)
    /\ isFourState(a) = isFourState(b)
    /\ getBitVectorRange(getCanonicalType(a)) = getBitVectorRange(getCanonicalType(b))

\* C6 as stated: isMatching(A,B) is true for every pair of simple bit vector
\* types (scalar, predefined integer or one-dimensional packed array of a
\* scalar, in any combination) of the same width, signedness, four-stateness
\* and bit-vector range.
SimpleBitVectorsMatch ==
    (/\ tpc = "compared"
     /\ isSimpleBitVector(lhs) /\ isSimpleBitVector(rhs)
     /\ sameVectorTraits(lhs, rhs))
        => rel.matching

\* C6 as amended: two simple bit vector types of the same width, signedness,
\* four-stateness and bit-vector range are matching exactly when both or
\* neither of them is a scalar; a scalar and the one-element vector [0:0] of
\* the same traits do not match.
SimpleBitVectorsMatchUnlessOneScalar ==
    (/\ tpc = "compared"
     /\ isSimpleBitVector(lhs) /\ isSimpleBitVector(rhs)
     /\ sameVectorTraits(lhs, rhs))
        => (rel.matching <=> (isScalar(lhs) = isScalar(rhs)))

\* a predefined integer and a vector of the same traits were compared
SimpleBitVectorsMatchWitness ==
    /\ tpc = "compared"
    /\ isPackedArray(lhs) /\ isPredefinedInteger(rhs)
    /\ sameVectorTraits(lhs, rhs)
    /\ rel.matching

\* the records of the call stack are pairwise different calls
NoRecursion ==
    \A m, n \in 1 .. Len(declStack) :
        (declStack[m].sym = declStack[n].sym /\ declStack[m].fn = declStack[n].fn)
            => m = n

RECURSIVE maxFieldWidth(_)
maxFieldWidth(fields) ==
    IF fields = <<>> THEN 0
    ELSE Max(getBitWidth(Head(fields)), maxFieldWidth(Tail(fields)))

RECURSIVE firstFieldWidth(_)
firstFieldWidth(fields) ==
    IF fields = <<>> THEN 0
    ELSE IF getBitWidth(Head(fields)) # 0 THEN getBitWidth(Head(fields))
    ELSE firstFieldWidth(Tail(fields))

returnedUnion == unionResult # <<>> /\ unionResult[1].kind = "PackedUnionType"

\* C7 as stated: the bit width of every packed union type that construction
\* returns is the maximum of the bit widths of its members.
UnionWidthIsMax ==
    returnedUnion => unionResult[1].bitWidth = maxFieldWidth(unionFields)

\* C7 as amended: the bit width of a returned packed union type is the width
\* of its first member of non-zero width; it is the maximum of the member
\* widths whenever construction issued neither PackedUnionWidthMismatch nor
\* PackedMemberNotIntegral.
UnionWidthIsMaxUnlessDiagnosed ==
    returnedUnion =>
        /\ unionResult[1].bitWidth = firstFieldWidth(unionFields)
        /\ unionDiags \cap {"PackedUnionWidthMismatch", "PackedMemberNotIntegral"} = {}
               => unionResult[1].bitWidth = maxFieldWidth(unionFields)

\* a union of three fields in two member declarations, returned undiagnosed
UnionWidthWitness ==
    /\ returnedUnion
    /\ Len(unionFields) = 3
    /\ unionMembers = 2
    /\ unionDiags = {}
    /\ unionResult[1].bitWidth = 2

\* the enumerands before the n-th that have a value
valuedBefore(n) == {m \in 1 .. n - 1 : enumerands[m].value # <<>>}
\* the value of the nearest of them
previousValue(n) ==
    enumerands[CHOOSE m \in valuedBefore(n) : \A k \in valuedBefore(n) : k <= m].value[1]
diagnosed(n, code) == \E d \in 1 .. Len(enumDiags) : enumDiags[d] = EnumDiag(code, n)

\* C8 as stated: an enumerand without an initializer receives 0 if no earlier
\* enumerand has a value, otherwise the previous value plus one; if the
\* previous value has unknown bits it gets EnumIncrementUnknown, if it is all
\* ones it gets EnumValueOverflow, and in both error cases it has no value.
InferredValues ==
    \A n \in 1 .. Len(enumerands) :
        enumerands[n].kind = "inferred" =>
            IF valuedBefore(n) = {} THEN enumerands[n].value = <<SVInt(0)>>
            ELSE IF previousValue(n).hasUnknown
            THEN diagnosed(n, "EnumIncrementUnknown") /\ enumerands[n].value = <<>>
            ELSE IF previousValue(n) = allOnes(enumWidth)
            THEN diagnosed(n, "EnumValueOverflow") /\ enumerands[n].value = <<>>
            ELSE enumerands[n].value = <<SVInt(previousValue(n).bits + 1)>>

\* C8 as amended: as stated, where the previous value is that of the nearest
\* earlier enumerand that has one, and with a third error case: when the
\* previous value plus one is already the value of an earlier enumerand, the
\* enumerand gets EnumValueDuplicate and no value.
InferredValuesUnlessDuplicate ==
    \A n \in 1 .. Len(enumerands) :
        enumerands[n].kind = "inferred" =>
            IF valuedBefore(n) = {} THEN enumerands[n].value = <<SVInt(0)>>
            ELSE IF previousValue(n).hasUnknown
            THEN diagnosed(n, "EnumIncrementUnknown") /\ enumerands[n].value = <<>>
            ELSE IF previousValue(n) = allOnes(enumWidth)
            THEN diagnosed(n, "EnumValueOverflow") /\ enumerands[n].value = <<>>
            ELSE IF \E m \in valuedBefore(n) :
                        enumerands[m].value = <<SVInt(previousValue(n).bits + 1)>>
            THEN diagnosed(n, "EnumValueDuplicate") /\ enumerands[n].value = <<>>
            ELSE enumerands[n].value = <<SVInt(previousValue(n).bits + 1)>>

\* enum bit[1:0] { A=3, B }: B overflows and has no value
InferredValuesWitness ==
    /\ enumWidth = 2
    /\ Len(enumerands) = 2
    /\ enumerands[1] = Enumerand("initializer", <<SVInt(3)>>)
    /\ enumerands[2] = Enumerand("inferred", <<>>)
    /\ enumDiags = <<EnumDiag("EnumValueOverflow", 2)>>


(***************************************************************************)
(* Diagnostics of constant evaluation (SpecEval).                          *)
(***************************************************************************)
\* an expression that evaluates to nothing without a note: a bad
\* expression, a data type, a parameter of a definition, a parameter or
\* enum value that has no value; or an expression with such an operand
RECURSIVE evaluatesSilently(_)
evaluatesSilently(e) ==
    /\ e.constant = <<>>
    /\ \/ bad(e)
       \/ e.kind = "DataType"
       \/ /\ e.kind = "NamedValue"
          /\ \/ e.symbol.kind = "Parameter" /\ e.symbol.inDefinition
             \/ e.symbol.kind \in {"Parameter", "EnumValue"} /\ isInvalid(e.symbol.value)
       \/ \E n \in 1 .. Len(e.operands) : evaluatesSilently(e.operands[n])

evaluated == evalResult # <<>>
recorded(code) == \E n \in 1 .. Len(context.diags) : context.diags[n] = code

\* C9 as stated: whenever constant evaluation returns an invalid result, at
\* least one diagnostic has been recorded in the EvalContext.
InvalidHasDiagnostic ==
    evaluated /\ isInvalid(evalResult[1]) => Len(context.diags) >= 1

\* C9: whenever constant evaluation returns an invalid result, at least one
\* diagnostic has been recorded in the EvalContext, provided that neither
\* the expression nor any of its operands is a bad expression, a data type
\* expression, a parameter of a definition, or a parameter or enum value
\* without a value.
InvalidHasDiagnosticUnlessSilent ==
    evaluated /\ isInvalid(evalResult[1]) /\ ~evaluatesSilently(expr)
        => Len(context.diags) >= 1

\* an operator whose second operand fails to evaluate: the invalid result
\* comes with the note of that operand
InvalidHasDiagnosticWitness ==
    /\ evaluated /\ isInvalid(evalResult[1]) /\ ~evaluatesSilently(expr)
    /\ expr.kind = "BinaryOp"
    /\ expr.operands[2].kind = "ElementSelect"
    /\ context.diags = <<"NoteArrayIndexInvalid">>

\* the value of an operand that is a literal
operandValue(n) == IntegerValue(expr.operands[n].value)
isLiteral(n) == expr.operands[n].kind = "IntegerLiteral"

unrepresentable(cv) == asInt32(cv.integer) = <<>>

\* the index of an element select of an array, or a bound of a range
\* select, is a literal that cannot be represented as int32_t or lies
\* outside the declared range of the value
selectOutOfBounds ==
    LET valueType == expr.operands[1].type
        range == getArrayRange(valueType)
        cs == operandValue(2)
        cr == operandValue(3)
        bounds == IF expr.op = "Simple"
                  THEN ConstantRange(asInt32(cs.integer)[1], asInt32(cr.integer)[1])
                  ELSE getIndexedRange(expr.op, asInt32(cs.integer)[1],
                                       asInt32(cr.integer)[1], isLittleEndian(range))
    IN  /\ expr.kind \in {"ElementSelect", "RangeSelect"}
        /\ ~isString(valueType)
        /\ isLiteral(2)
        /\ \/ /\ expr.kind = "ElementSelect"
              /\ \/ unrepresentable(cs)
                 \/ ~containsPoint(range, asInt32(cs.integer)[1])
           \/ /\ expr.kind = "RangeSelect"
              /\ isLiteral(3)
              /\ \/ unrepresentable(cs)
                 \/ unrepresentable(cr)
                 \/ outOfRange(range, bounds)

SelectOutOfBoundsIsDiagnosedForKnownWidth ==
    evaluated /\ selectOutOfBounds
              /\ (expr.kind = "RangeSelect" => ~unrepresentable(operandValue(3)))
        => /\ isInvalid(evalResult[1])
           /\ recorded("NoteArrayIndexInvalid") \/ recorded("NotePartSelectInvalid")


(***************************************************************************)
(* Assignment in a session (SpecAssignment).                               *)
(***************************************************************************)
\* the value of the local x
valueOfX == context.locals[1].value.integer.bits

\* the value the right-hand side has while x holds v
rightHandSide(v) ==
    LET right == expr.operands[2]
    IN  IF right.kind = "IntegerLiteral" THEN right.value.bits
        ELSE v + right.operands[2].value.bits

\* the value to store: for a compound assignment the operator is applied
\* to the target and the right-hand side
assigned(v) == IF expr.op = "Add" THEN v + rightHandSide(v) ELSE rightHandSide(v)

assignsToX == expr.operands[1] = VariableX /\ expr.operands[2] # VariableY

\* C13: evaluating an assignment to a local evaluates the right-hand side
\* against the current values of the locals, stores the result in the
\* target local and returns the stored value; after each evaluation the
\* local holds the value just returned.
AssignmentStoresAndReturns ==
    [][assignsToX =>
           /\ evalResult' = <<integer(assigned(valueOfX))>>
           /\ valueOfX' = assigned(valueOfX)
           /\ context'.diags = context.diags]_vars

\* `x = x + 3` evaluated twice from x = 1: 4, then 7
AssignmentStoresWitness ==
    /\ expr = AssignmentExpression("", VariableX,
                                   BinaryExpression("Add", VariableX,
                                                    IntegerLiteral(SVInt(3))))
    /\ evalResult = <<integer(7)>>
    /\ valueOfX = 7



\* C15: a constant call of a user subroutine evaluates its arguments in the
\* caller's frame, in argument order, so that their effects stay in the
\* caller's frame; the callee's frame then holds one local per formal with
\* the value of its argument, and the local of the return value; the call
\* yields what the return value local holds when the body ended with
\* Success or Return, and invalid when it ended with Fail.
argumentsInCallerFrame ==
    \A a \in {eval(expr.operands[1], context, 0)} :
        \A b \in {eval(expr.operands[2], a.ctx, 0)} :
            /\ context'.stack = <<[frame |-> context.frame, locals |-> b.ctx.locals]>>
            /\ Len(context'.locals) = Len(expr.symbol.arguments) + 1
            /\ context'.locals[1] = Local(expr.symbol.arguments[1], a.cv)
            /\ context'.locals[2] = Local(expr.symbol.arguments[2], b.cv)
            /\ context'.locals[3].symbol = expr.symbol.name
            /\ context'.frame.subroutine = <<expr.symbol.name>>
returnValue == findLocal(context, expr.symbol.name)[1]
yieldsReturnValue ==
    /\ evalResult' = <<IF er = "Fail" THEN Invalid ELSE returnValue>>
    /\ context'.frame = context.stack[1].frame
    /\ context'.locals = context.stack[1].locals
CallEvaluatesInCallerFrameAndYields ==
    [][/\ (evalPc = "call" /\ evalPc' = "body") => argumentsInCallerFrame
       /\ evalPc = "return" => yieldsReturnValue]_vars
\* f(x = 3, 2) with the body `return a + b` has yielded 5 and left x = 3
CallEvaluatesWitness ==
    /\ evalPc = "done" /\ er = "Return"
    /\ expr.kind = "Call" /\ expr.operands[1].kind = "Assignment"
    /\ evalResult = <<integer(5)>>
    /\ context.locals = <<Local("x", integer(3))>>

(***************************************************************************)
(* Verification of a named value in a constant function (SpecVerify).      *)
(***************************************************************************)
verifiesConstantFunction ==
    /\ evalPc = "verified" /\ ~context.isScriptEval /\ context.frame.subroutine # <<>>
accepted == verifyResult = <<TRUE>>
declaredInFunction == isLocalTo(expr.symbol, context.frame.subroutine[1])
sameScopeAsCall ==
    context.frame.scope = "" \/ expr.symbol.parents[1] = context.frame.scope
otherCompilationUnit ==
    ~sameScopeAsCall /\ expr.symbol.unit # context.frame.scopeSymbol.unit
\* the parameter precedes the call site: in the scope of the call by its
\* index, elsewhere by its position in the compilation unit of the call
declaredBeforeCall ==
    IF sameScopeAsCall THEN expr.symbol.index + 1 < context.frame.index
    ELSE /\ expr.symbol.unit = context.frame.scopeSymbol.unit
         /\ expr.symbol.position < context.frame.scopeSymbol.position
rejectedWithDiagnostic == verifyResult = <<FALSE>> /\ context.diags # <<>>

\* C20 as stated: a named value is accepted only if it is not hierarchical
\* and is a non-parameter declared in the function or a parameter declared
\* before the call site; every other reference is rejected with a
\* diagnostic.
AcceptedOnlyIfLocalOrDeclaredBefore ==
    verifiesConstantFunction =>
        IF /\ ~expr.symbol.isHierarchical
           /\ IF expr.symbol.kind = "Parameter" THEN declaredBeforeCall
              ELSE declaredInFunction
        THEN accepted
        ELSE rejectedWithDiagnostic

\* C20: in the verification of a constant function (not a script
\* evaluation) a named value is accepted only if it is not hierarchical and
\* is a non-parameter declared in the function, a parameter declared before
\* the call site, or a parameter of a scope in another compilation unit
\* than the call site; every other reference is rejected with a diagnostic.
AcceptedOnlyIfLocalOrDeclaredBeforeOrOtherUnit ==
    verifiesConstantFunction =>
        IF /\ ~expr.symbol.isHierarchical
           /\ IF expr.symbol.kind = "Parameter"
              THEN declaredBeforeCall \/ otherCompilationUnit
              ELSE declaredInFunction
        THEN accepted
        ELSE rejectedWithDiagnostic
\* a parameter of the package p, in another compilation unit, is accepted
AcceptedOtherUnitWitness ==
    /\ verifiesConstantFunction /\ accepted
    /\ expr.symbol.kind = "Parameter" /\ otherCompilationUnit
    /\ expr.symbol.parents = <<"p">>

(***************************************************************************)
(* Loop generate (SpecLoopGenerate).                                       *)
(***************************************************************************)
instantiated(value) == [value |-> value, isInstantiated |-> TRUE]
blockValues == {blocks[n].value : n \in 1 .. Len(blocks)}
uninstantiatedIfNone ==
    IF blocks = <<>> THEN Len(blocks') = 1 /\ ~blocks'[1].isInstantiated
    ELSE blocks' = blocks

\* C11 as stated: every pass of the loop in which the stop expression
\* evaluated true adds one instantiated block that holds the value of the
\* genvar, and no other pass adds a block; when no pass added one, exactly
\* one uninstantiated block is created.
BlockPerTrueStop ==
    [][/\ genPc = "stop" =>
              \A stop \in {eval(stopExpr, evalContext, 0)} :
                  blocks' = IF isTrue(stop.cv) THEN Append(blocks, instantiated(loopVal))
                            ELSE blocks
       /\ genPc = "iter" => blocks' = blocks
       /\ genPc = "finish" => uninstantiatedIfNone]_vars

\* C11: every pass of the loop in which the stop expression evaluated true
\* and the genvar has a value that no earlier pass had adds one
\* instantiated block that holds the value of the genvar, and no other
\* pass adds a block; when no pass added one, exactly one uninstantiated
\* block is created.
BlockPerTrueStopWithNewValue ==
    [][/\ genPc = "stop" =>
              \A stop \in {eval(stopExpr, evalContext, 0)} :
                  blocks' = IF isTrue(stop.cv) /\ loopVal \notin blockValues
                            THEN Append(blocks, instantiated(loopVal))
                            ELSE blocks
       /\ genPc = "iter" => blocks' = blocks
       /\ genPc = "finish" => uninstantiatedIfNone]_vars
\* for (genvar i = 0; i < 3; i = i + 1) has made the blocks of 0, 1 and 2
BlockPerTrueStopWitness ==
    /\ genPc = "done"
    /\ initial = <<SVInt(0)>>
    /\ stopExpr = BinaryExpression("LessThan", GenvarI, IntegerLiteral(SVInt(3)))
    /\ iterExpr = IncrementGenvar
    /\ blocks = <<instantiated(SVInt(0)), instantiated(SVInt(1)), instantiated(SVInt(2))>>

\* C16: no generate block is created for a genvar value that an earlier
\* iteration had or that has unknown bits.
NoBlockForUsedOrUnknownGenvar ==
    \A n \in 1 .. Len(blocks) :
        blocks[n].isInstantiated =>
            /\ ~blocks[n].value.hasUnknown
            /\ \A m \in 1 .. n - 1 : blocks[m].value # blocks[n].value
\* the part of it that holds: no block for a value that an earlier iteration
\* had, and a GenvarDuplicate diagnostic ends the loop
NoBlockForUsedGenvar ==
    /\ \A n \in 1 .. Len(blocks) : \A m \in 1 .. n - 1 : blocks[m].value # blocks[n].value
    /\ (\E n \in 1 .. Len(genDiags) : genDiags[n] = "GenvarDuplicate")
           => genPc \in {"finish", "done"}

(***************************************************************************)
(* Case generate (SpecCaseGenerate).                                       *)
(***************************************************************************)
standardItems == {n \in 1 .. Len(caseItems) : caseItems[n].kind = "StandardCaseItem"}
matching ==
    {n \in standardItems :
         \E i \in 1 .. Len(caseItems[n].expressions) :
             caseItems[n].expressions[i] = caseCondition}
firstMatch == IF matching = {} THEN 0 ELSE CHOOSE n \in matching : \A m \in matching : n <= m
blockOf(n) == {r \in 1 .. Len(caseResults) : caseResults[r].item = n}
created(n, isInstantiated) ==
    /\ Cardinality(blockOf(n)) = 1
    /\ \A r \in blockOf(n) : caseResults[r].isInstantiated = isInstantiated
issued(code) == {d \in 1 .. Len(caseDiags) : caseDiags[d].code = code}
armsAndWarning ==
    /\ \A n \in standardItems : created(n, n = firstMatch)
    /\ \A n \in defaults(caseItems) : created(n, firstMatch = 0)
    /\ Cardinality(issued("CaseGenerateDup")) = IF Cardinality(matching) > 1 THEN 1 ELSE 0
noMatchNoDefault == matching = {} /\ defaults(caseItems) = {}

isOverridable(param) == ~param.isLocalParam
nonLocalParams == SelectSeq(parameters, isOverridable)
\* the assignments that take part: those before the first one of the other
\* form
takesPart(n) == \A m \in 1 .. n : assignments[m].kind = assignments[1].kind
orderedOverrides ==
    SelectSeq([n \in 1 .. Len(assignments) |-> n],
              LAMBDA n : takesPart(n) /\ assignments[n].kind = "OrderedArgument")
\* the first named assignment of each name
namedOverrides ==
    {n \in 1 .. Len(assignments) :
         /\ takesPart(n) /\ assignments[n].kind = "NamedArgument"
         /\ \A m \in 1 .. n - 1 : assignments[m].name # assignments[n].name}
matchedOverrides ==
    IF Len(nonLocalParams) < Len(orderedOverrides) THEN Len(nonLocalParams)
    ELSE Len(orderedOverrides)
localParams == {n \in 1 .. Len(parameters) : parameters[n].isLocalParam}

\* C19: a local parameter never receives an override: the k-th ordered
\* assignment goes to the k-th non-local parameter in declaration order and
\* to no other, a named assignment of a local parameter is reported with
\* AssignedToLocalPortParam (parameter of the header) or
\* AssignedToLocalBodyParam (parameter of the body), and ordered
\* assignments beyond the non-local parameters are reported with
\* TooManyParamAssignments.
LocalParamNeverOverridden ==
    paramPc = "done" =>
        /\ \A n \in localParams : \A o \in paramOverrides : o.name # parameters[n].name
        /\ orderedOverrides # <<>> =>
               /\ paramOverrides =
                      {Override(nonLocalParams[k].name, orderedOverrides[k]) :
                           k \in 1 .. matchedOverrides}
               /\ (\E d \in paramDiags : d.code = "TooManyParamAssignments")
                      <=> Len(orderedOverrides) > Len(nonLocalParams)
        /\ \A a \in namedOverrides : \A n \in localParams :
               assignments[a].name = parameters[n].name =>
                   ParamDiagnostic(IF parameters[n].isPortParam
                                   THEN "AssignedToLocalPortParam"
                                   ELSE "AssignedToLocalBodyParam", a) \in paramDiags
\* #(e1, e2) on parameter P1, localparam P2, parameter P3: P1 and P3 are
\* overridden
LocalParamSkippedWitness ==
    /\ paramPc = "done"
    /\ portDeclarations = <<"parameter", "localparam", "parameter">>
    /\ assignments = <<OrderedArgument, OrderedArgument>>
    /\ paramOverrides = {Override(portName(1), 1), Override(portName(3), 2)}

\* the type with every `reg` scalar inside it replaced by `logic`
RECURSIVE withLogicForReg(_)
withLogicForReg(t) ==
    IF t.kind = "ScalarType" /\ t.sub = "Reg" THEN [t EXCEPT !.sub = "Logic"]
    ELSE IF t.elem = <<>> THEN t
    ELSE [t EXCEPT !.elem = <<withLogicForReg(t.elem[1])>>]

\* the answers of the four relations, in both directions, on two types
relations(a, b) ==
    [matching |-> isMatching(a, b),
     matchingRev |-> isMatching(b, a),
     equivalent |-> isEquivalent(a, b),
     equivalentRev |-> isEquivalent(b, a),
     assignmentCompatible |-> isAssignmentCompatible(a, b),
     castCompatible |-> isCastCompatible(a, b)]

\* a `reg` scalar, or a packed array of `reg` scalars
regOrVectorOfReg(t) ==
    \/ t.kind = "ScalarType" /\ t.sub = "Reg"
    \/ /\ t.kind = "PackedArrayType"
       /\ t.elem[1].kind = "ScalarType"
       /\ t.elem[1].sub = "Reg"

\* C14: the Reg flag changes no type relation: for all types A and B, each
\* of isMatching, isEquivalent, isAssignmentCompatible and isCastCompatible
\* gives the same answer when every `reg` scalar inside A or B is replaced
\* by `logic`, while the Reg flag itself remains readable from the type: a
\* reg scalar and a vector of them carry it, and the replacement changes
\* nothing else of the flags.
RegChangesNoRelation ==
    tpc = "compared" =>
        /\ \A a \in {withLogicForReg(lhs)} : \A b \in {withLogicForReg(rhs)} :
              /\ [f \in DOMAIN relations(a, b) |-> rel[f]] = relations(a, b)
              /\ [f \in DOMAIN relations(lhs, b) |-> rel[f]] = relations(lhs, b)
              /\ [f \in DOMAIN relations(a, rhs) |-> rel[f]] = relations(a, rhs)
              /\ getIntegralFlags(a) = rel.integralFlags \ {"Reg"}
        /\ regOrVectorOfReg(lhs) => "Reg" \in rel.integralFlags

RegChangesNoRelationWitness ==
    /\ tpc = "compared"
    /\ lhs = getVectorType(2, Reg)
    /\ rhs = getVectorType(2, Logic)
    /\ rel.matching
    /\ rel.integralFlags = {"FourState", "Reg"}

\* the position of the first connection whose style (ordered or not) differs
\* from the style of the first connection; 0 when the list is of one style
firstOfOtherStyle ==
    LET other == {n \in 1 .. Len(portConnections) :
                     (portConnections[n].kind = "OrderedPortConnection")
                         # (portConnections[1].kind = "OrderedPortConnection")}
    IN  IF other = {} THEN 0 ELSE CHOOSE n \in other : \A m \in other : n <= m

mixingDiags == {d \in portDiags : d.code = "MixingOrderedAndNamedPorts"}

\* the positions of the connections that take part in connecting ports:
\* those the builder holds, those a port has its connection from, and those
\* another diagnostic is about
partaking ==
    ({orderedConns[k] : k \in DOMAIN orderedConns}
         \cup {c.conn : c \in namedConns}
         \cup (IF hasWildcard THEN {wildcardRange} ELSE {})
         \cup {connection[i].at : i \in DOMAIN connection}
         \cup {d.at : d \in portDiags \ mixingDiags}) \ {0}

\* C12: if an instance's port connection list contains both ordered and
\* named (or wildcard) connections, exactly one MixingOrderedAndNamedPorts
\* diagnostic is issued, located at the first connection whose style differs
\* from the style of the first connection, and that connection and all
\* later ones take no part in connecting ports; a list of one style gets no
\* such diagnostic.
MixingReportedOnceAtFirstOther ==
    portPc \in {"connecting", "done"} =>
        IF firstOfOtherStyle = 0 THEN mixingDiags = {}
        ELSE /\ mixingDiags =
                    {PortDiagnostic("MixingOrderedAndNamedPorts", firstOfOtherStyle, "")}
             /\ \A n \in partaking : n < firstOfOtherStyle

\* m m1(.a(1), 2, .b); for a module with the ports a and b: b is left
\* unconnected
MixingReportedWitness ==
    /\ portPc = "done"
    /\ portConnections = <<NamedPortConnection("a", TRUE, TRUE),
                           OrderedPortConnection(TRUE),
                           NamedPortConnection("b", FALSE, FALSE)>>
    /\ ports = <<PortSymbol("a", FALSE, Logic), PortSymbol("b", FALSE, Logic)>>
    /\ connection = <<PortConnection("expr", 1), NoConnection>>
    /\ portDiags = {PortDiagnostic("MixingOrderedAndNamedPorts", 2, ""),
                    PortDiagnostic("UnconnectedNamedPort", 0, "b")}

\* port i has been given its connection by the wildcard: it has a name and
\* no named connection
byWildcard(i) ==
    /\ portPc \in {"connecting", "done"}
    /\ ~usingOrdered /\ hasWildcard
    /\ i \in DOMAIN connection
    /\ ports[i].name # ""
    /\ ~\E c \in namedConns : c.name = ports[i].name

\* port i has been given its connection by the implicit named connection c
byImplicitNamed(i, c) ==
    /\ portPc \in {"connecting", "done"}
    /\ ~usingOrdered
    /\ i \in DOMAIN connection
    /\ c \in namedConns /\ c.name = ports[i].name
    /\ ~portConnections[c.conn].openParen

\* the diagnostics of implicit connection that name the port
implicitDiags(port) ==
    {d \in portDiags : /\ d.name = port.name
                       /\ d.code \in {"ImplicitNamedPortNotFound",
                                      "ImplicitNamedPortTypeMismatch"}}

\* the port is connected to the value `entry` of the scope as by an
\* implicit named connection at `range`: not found gives the diagnostic, a
\* value of an equivalent type is connected, another type gives the
\* mismatch diagnostic (nothing is done for a port of the error type)
connectedAsImplicit(i, entry, range) ==
    IF entry.found = "no"
    THEN /\ connection[i] = NoConnection
         /\ implicitDiags(ports[i]) =
                {PortDiagnostic("ImplicitNamedPortNotFound", range, ports[i].name)}
    ELSE IF isError(ports[i].type)
    THEN connection[i] = NoConnection /\ implicitDiags(ports[i]) = {}
    ELSE IF isEquivalent(entry.type, ports[i].type)
    THEN /\ connection[i] = PortConnection("implicit", range)
         /\ implicitDiags(ports[i]) = {}
    ELSE /\ connection[i] = NoConnection
         /\ implicitDiags(ports[i]) =
                {PortDiagnostic("ImplicitNamedPortTypeMismatch", range, ports[i].name)}

\* an implicit named connection .name looks the name up in the
\* instantiating scope, wildcard imports included
implicitNamedAsStated ==
    \A i \in DOMAIN connection : \A c \in namedConns :
        byImplicitNamed(i, c) =>
            connectedAsImplicit(i, instanceScope[ports[i].name], c.conn)

\* C17 as stated: with a `.*` connection, every named port that has no
\* explicit named connection is connected exactly as an implicit named
\* connection `.name` for that port would connect it: the same lookup, the
\* same requirement of an equivalent type, the same diagnostic when the
\* name is not found.
WildcardConnectsAsImplicitNamed ==
    /\ implicitNamedAsStated
    /\ \A i \in DOMAIN connection :
          byWildcard(i) =>
              connectedAsImplicit(i, instanceScope[ports[i].name], wildcardRange)

\* C17: with a `.*` connection, every named port that has no named
\* connection is connected as an implicit named connection `.name` would
\* connect it (same requirement of an equivalent type, same diagnostics),
\* except that the lookup does not see names that only a wildcard import
\* makes visible, and that a port whose name is not found takes its default
\* value, if it has one, with no diagnostic.
WildcardConnectsAsImplicitNamedOrDefault ==
    /\ implicitNamedAsStated
    /\ \A i \in DOMAIN connection :
          byWildcard(i) =>
              IF instanceScope[ports[i].name].found = "member"
              THEN connectedAsImplicit(i, instanceScope[ports[i].name], wildcardRange)
              ELSE IF ports[i].defaultValue
              THEN /\ connection[i] = PortConnection("default", wildcardRange)
                   /\ implicitDiags(ports[i]) = {}
              ELSE connectedAsImplicit(i, NotFound, wildcardRange)

\* m m1(.*); for a module with the port a that has a default value, where
\* the instantiating scope has no a: the default is connected, silently
WildcardTakesDefaultWitness ==
    /\ portPc = "done"
    /\ portConnections = <<WildcardPortConnection>>
    /\ ports = <<PortSymbol("a", TRUE, Logic)>>
    /\ instanceScope["a"] = NotFound
    /\ connection = <<PortConnection("default", 1)>>
    /\ portDiags = {}

\* the two types have the same bit width, signedness and four-stateness
sameIntegralTraits(a, b) ==
    /\ getBitWidth(a) = getBitWidth(b)
    /\ isSigned(a) = isSigned(b)
    /\ isFourState(a) = isFourState(b)

\* the scalar under the packed dimensions of an integral type, the type
\* itself if it is not a packed array
RECURSIVE scalarUnder(_)
scalarUnder(t) ==
    IF getCanonicalType(t).kind = "PackedArrayType"
    THEN scalarUnder(getCanonicalType(t).elem[1])
    ELSE getCanonicalType(t)

\* C25: if isMatching(A,B) holds and A and B are both integral types, then
\* A and B have the same bit width, the same signedness and the same
\* four-stateness.
MatchingIntegralsShareTraits ==
    (tpc = "compared" /\ rel.matching /\ isIntegral(lhs) /\ isIntegral(rhs))
        => sameIntegralTraits(lhs, rhs)

\* the same for types that are not built from one syntax node and whose
\* innermost scalars have the same signedness: matching integral types share
\* their width, signedness and four-stateness
MatchingIntegralsShareTraitsUnlessScalarSign ==
    (/\ tpc = "compared" /\ rel.matching /\ isIntegral(lhs) /\ isIntegral(rhs)
     /\ \/ getCanonicalType(lhs).syntax = NoSyntax
        \/ getCanonicalType(lhs).syntax # getCanonicalType(rhs).syntax
     /\ isSigned(scalarUnder(lhs)) = isSigned(scalarUnder(rhs)))
        => sameIntegralTraits(lhs, rhs)

\* logic signed and reg have been compared: they match, and only one of
\* them is signed
SignedScalarMatchesUnsigned ==
    /\ tpc = "compared"
    /\ lhs = ScalarType("Logic", TRUE) /\ rhs = Reg
    /\ rel.matching
    /\ isSigned(lhs) /\ ~isSigned(rhs)

\* the value of the left operand of the binary expression while x holds v
leftValue(v) ==
    LET left == expr.operands[1]
    IN  IF left.kind = "IntegerLiteral" THEN IntegerValue(left.value)
        ELSE IF left = VariableX THEN integer(v)
        ELSE Invalid

\* the value of the left operand fixes the result of the operator
fixesResult(op, cv) ==
    \/ op \in {"LogicalAnd", "LogicalImplication"} /\ isFalse(cv)
    \/ op = "LogicalOr" /\ isTrue(cv)

shortCircuited ==
    /\ expr.kind = "BinaryOp"
    /\ isShortCircuitOp(expr.op)
    /\ fixesResult(expr.op, leftValue(valueOfX))

\* C22: in constant evaluation of `a && b`, `a || b` and `a -> b` the right
\* operand is evaluated only when the left operand's value does not already
\* fix the result (left false for `&&` and `->`, left true for `||`); when
\* the left operand fixes the result, the result is the fixed one and the
\* right operand changes no local and records no diagnostic.
ShortCircuitSkipsRight ==
    [][shortCircuited =>
           /\ evalResult' = <<Bool(expr.op # "LogicalAnd")>>
           /\ context' = context]_vars

\* `0 && (x = 3)` has been evaluated while x held 1: false, and x is 1
ShortCircuitSkipsRightWitness ==
    /\ expr = BinaryExpression("LogicalAnd", IntegerLiteral(SVInt(0)),
                               AssignmentExpression("", VariableX,
                                                    IntegerLiteral(SVInt(3))))
    /\ evalResult = <<Bool(FALSE)>>
    /\ valueOfX = 1
    /\ context.diags = <<>>

\* the value x has after the evaluation of e, which began with x = v: the
\* effect of the assignments and increments in e that are evaluated (the
\* right operand of + is not evaluated when the left one has no value)
RECURSIVE valueAfter(_, _)
valueAfter(e, v) ==
    IF e.kind = "Assignment" /\ e.operands[1] = VariableX
    THEN IF e.op = "" THEN e.operands[2].value.bits
         ELSE v + e.operands[2].value.bits
    ELSE IF e.kind = "UnaryOp" THEN v + 1
    ELSE IF e.kind = "BinaryOp"
    THEN IF e.operands[1] = VariableY THEN v
         ELSE valueAfter(e.operands[2], valueAfter(e.operands[1], v))
    ELSE v

assignmentFailed ==
    /\ expr.kind = "Assignment"
    /\ evalResult' # <<>> /\ isInvalid(evalResult'[1])

\* C23 as stated: if constant evaluation of an assignment expression
\* returns invalid, every local variable slot of the EvalContext holds the
\* same value as before that evaluation started.
FailedAssignmentKeepsLocals ==
    [][assignmentFailed => context'.locals = context.locals]_vars

\* C23: if constant evaluation of an assignment expression returns invalid,
\* its target has not been stored to, and every local holds the value it
\* had before except for the effect of the assignments and increments
\* inside the right-hand side, which is evaluated, and keeps its effect,
\* also when the target lvalue could not be evaluated.
FailedAssignmentKeepsLocalsButNested ==
    [][assignmentFailed =>
           /\ valueOfX' = valueAfter(expr.operands[2], valueOfX)
           /\ Len(context'.locals) = Len(context.locals)]_vars

\* `y = (x = 3)` has been evaluated, y not being a local: no value, and x
\* holds 3
FailedAssignmentWitness ==
    /\ expr = AssignmentExpression("", VariableY,
                                   AssignmentExpression("", VariableX,
                                                        IntegerLiteral(SVInt(3))))
    /\ evalResult = <<Invalid>>
    /\ valueOfX = 3

\* the elements of the arrays a and b
elementsOf(n) == expr.operands[n].symbol.value.elements
somePairDiffers == \E i \in 1 .. MaxElements : elementsOf(1)[i] # elementsOf(2)[i]
everyPairDiffers == \A i \in 1 .. MaxElements : elementsOf(1)[i] # elementsOf(2)[i]

\* C24: for two unpacked arrays of equal size whose elements are fully
\* known, constant evaluation of `a != b` is true exactly when at least one
\* pair of corresponding elements differs, i.e. it is the logical negation
\* of `a == b`.
ArrayInequalityNegatesEquality ==
    evaluated /\ expr.op = "Inequality" => evalResult = <<Bool(somePairDiffers)>>

\* `a == b` is true exactly when no pair of corresponding elements
\* differs, and `a != b` is true exactly when every pair differs
ArrayComparisonIsElementwiseAnd ==
    evaluated =>
        evalResult = <<Bool(IF expr.op = "Equality" THEN ~somePairDiffers
                            ELSE everyPairDiffers)>>

\* '{1, 2} != '{1, 0} has been evaluated: false
ArrayInequalityFalseForDifferent ==
    /\ evaluated /\ expr.op = "Inequality"
    /\ elementsOf(1) = <<integer(1), integer(2)>>
    /\ elementsOf(2) = <<integer(1), integer(0)>>
    /\ evalResult = <<Bool(FALSE)>>
\* the packed array, its declared range and the width of its elements
selectedFrom == expr.operands[1]
declaredRange == getArrayRange(selectedFrom.type)
elementWidth == getBitWidth(getCanonicalType(selectedFrom.type).elem[1])
\* the selected elements l .. r and the positions they have in the value,
\* position 0 being the least significant element
selectedElements ==
    Min(expr.operands[2].value.bits, expr.operands[3].value.bits)
        .. Max(expr.operands[2].value.bits, expr.operands[3].value.bits)
positions == {translateIndex(declaredRange, i) : i \in selectedElements}
\* the bits of the selected elements
selectedBits ==
    UNION {(n * elementWidth) .. (n * elementWidth + elementWidth - 1) : n \in positions}
\* the bits of the range that evaluation of the select computes
computedRange ==
    getRange(expr, context, IntegerValue(expr.operands[2].value),
             IntegerValue(expr.operands[3].value), 0)
computedBits == lower(computedRange.range) .. upper(computedRange.range)
\* the value made of the given bits of the array's value
bitsOfValue(bits) ==
    LET least == CHOOSE n \in bits : \A m \in bits : n <= m
    IN  integer((selectedFrom.symbol.value.integer.bits \div Pow2(least))
                    % Pow2(Cardinality(bits)))

\* C26: for an in-bounds constant range select of k consecutive elements
\* from a packed array whose elements are w bits wide, the computed bit
\* range covers exactly k*w bits, namely the bits of the selected elements
\* and no others, for ascending as well as descending declared ranges, and
\* the select evaluates to those bits of the array's value.
RangeSelectCoversSelectedElements ==
    evaluated =>
        /\ computedRange.ok
        /\ computedBits = selectedBits
        /\ Cardinality(computedBits) = Cardinality(selectedElements) * elementWidth
        /\ evalResult = <<bitsOfValue(selectedBits)>>

\* the select is of one element, of one-bit elements or of an array
\* declared descending
oneElementOrBitOrDescending ==
    \/ Cardinality(selectedElements) = 1
    \/ elementWidth = 1
    \/ isLittleEndian(declaredRange)

\* the computed range covers the bits of the selected elements for a select
\* of one element, of one-bit elements or of a descending array; for two or
\* more elements, each two or more bits wide, of an ascending array it is
\* the two bits from the top bit of the lowest selected position to the
\* bottom bit of the highest
RangeSelectCoversUnlessAscendingWide ==
    evaluated =>
        /\ computedRange.ok
        /\ evalResult = <<bitsOfValue(computedBits)>>
        /\ IF oneElementOrBitOrDescending THEN computedBits = selectedBits
           ELSE LET least == CHOOSE n \in positions : \A m \in positions : n <= m
                    most == CHOOSE n \in positions : \A m \in positions : n >= m
                IN  /\ computedRange.range.left = least * elementWidth + elementWidth - 1
                    /\ computedRange.range.right = most * elementWidth
                    /\ computedBits # selectedBits

\* p[1:2] of logic [0:2][1:0] p = 6'b011011 has been evaluated: bits 2..1,
\* which are 2'b01, and not the bits 3..0 of the elements 1 and 2, which
\* are 4'b1011
AscendingSelectTakesTwoBits ==
    /\ evaluated
    /\ declaredRange = ConstantRange(0, MaxElements) /\ elementWidth = 2
    /\ selectedFrom.symbol.value = integer(27)
    /\ expr.operands[2].value.bits = 1 /\ expr.operands[3].value.bits = 2
    /\ evalResult = <<integer(1)>>
\* the subroutines whose frames are on the stack, the top one last
framesOf(ctx) ==
    [i \in 1 .. Len(ctx.stack) |->
         IF i < Len(ctx.stack) THEN ctx.stack[i + 1].frame.subroutine[1]
         ELSE ctx.frame.subroutine[1]]
\* the functions that call themselves, directly or through another one
Recursive == {"f", "g", "h"}

\* no subroutine has two frames on the stack, which bounds the frames by the
\* number of subroutines of the program
framesOfDistinctSubroutines ==
    \A i, j \in 1 .. Len(context.stack) :
        framesOf(context)[i] = framesOf(context)[j] => i = j

\* C28: constant-function verification of a call expression terminates
\* for every subroutine body, including a function that calls itself
\* directly or through other functions; the number of verification frames
\* pushed is bounded, no subroutine being verified within its own
\* verification.
CallVerificationTerminates ==
    /\ []framesOfDistinctSubroutines
    /\ <>(evalPc = "verified")

\* verification of a call of a function that calls itself returns only
\* when an argument of that very call is rejected, before any frame is
\* pushed; verification of a call of any other function holds at most two
\* frames
RecursiveVerificationReturnsOnlyOnBadArgument ==
    /\ (evalPc = "verified" /\ expr.symbol.name \in Recursive
            => verifyResult = <<FALSE>> /\ context.diags # <<>>)
    /\ (expr.symbol.name \notin Recursive => Len(context.stack) <= 2)

\* verification of f(1) is about to verify the call of f in the body of f
\* with MaxFrames frames of f on the stack
FramesOfOneSubroutine ==
    /\ expr = CallOf("f", IntegerLiteral(SVInt(1)), "top")
    /\ evalPc = "verifyCall"
    /\ framesOf(context) = [i \in 1 .. MaxFrames |-> "f"]

\* C30: the EvalContext frame stack has the same depth after evaluating or
\* verifying a call expression as before it, whatever the outcome (an
\* argument fails, the body ends with Fail, Return or Success, verification
\* fails); evaluation and verification start on the bottom frame.
FrameDepthRestored ==
    evalPc \in {"done", "verified"} =>
        /\ context.stack = <<>>
        /\ context.frame = NoFrame

\* the body of the call has failed during evaluation, and the call is over
FrameDepthRestoredWitness ==
    /\ evalPc = "done" /\ er = "Fail"
    /\ evalResult = <<Invalid>>
    /\ context.stack = <<>>
\* a pass of the loop has got as far as its break or its createBlock
passOfLoop == genPc = "stop" /\ genPc' # "stop"
endsIteration == genPc' = "finish" /\ blocks' = blocks /\ usedGenvars' = usedGenvars
recordsNewValue ==
    /\ loopVal \notin usedGenvars
    /\ usedGenvars' = usedGenvars \cup {loopVal}
    /\ blocks' = Append(blocks, [value |-> loopVal, isInstantiated |-> TRUE])
\* the values of the genvar that are followed
GenvarValues == {SVInt(n) : n \in 0 .. MaxGenvar} \cup {UnknownSVInt}
instantiatedBlocks == {n \in 1 .. Len(blocks) : blocks[n].isInstantiated}
blocksWithinValues ==
    /\ usedGenvars \subseteq GenvarValues
    /\ Cardinality(instantiatedBlocks) = Cardinality(usedGenvars)
    /\ \A n, o \in instantiatedBlocks : blocks[n].value = blocks[o].value => n = o
    /\ Len(blocks) <= Cardinality(GenvarValues)
\* the genvar has left the values that are followed
beyondValues == genPc = "stop" /\ ~loopVal.hasUnknown /\ loopVal.bits > MaxGenvar

\* C29: elaboration of a loop-generate always terminates: every pass of
\* the loop either ends the iteration or records a genvar value that was
\* not recorded before, so the number of created blocks never exceeds the
\* number of distinct values the genvar can take (here: fromSyntax gets to
\* its end unless the genvar leaves the values 0 .. MaxGenvar, and the
\* instantiated blocks are as many as the values recorded, one of each).
LoopGenerateTerminates ==
    /\ [][passOfLoop => endsIteration \/ recordsNewValue]_vars
    /\ []blocksWithinValues
    /\ <>(genPc = "done" \/ beyondValues)

\* for (genvar i = 0; 1; i = 0) is done: one block, for the value 0, and
\* the second pass has ended the loop on the value recorded before
LoopGenerateTerminatesWitness ==
    /\ genPc = "done"
    /\ stopExpr = IntegerLiteral(SVInt(1))
    /\ iterExpr = AssignmentExpression("", GenvarI, IntegerLiteral(SVInt(0)))
    /\ usedGenvars = {SVInt(0)}
    /\ Len(blocks) = 1
    /\ genDiags = <<"GenvarDuplicate">>
\* a step that resets record i: no resolution is under way before or after
\* it, and the dimension syntax, the memoized type or the bound initializer
\* of the record is not what it was
resetOf(i) ==
    /\ declStack = <<>> /\ declStack' = <<>>
    /\ \/ decls'[i] # decls[i]
       \/ declType'[i] # declType[i]
       \/ declInitializer'[i] # declInitializer[i]
someReset == \E i \in DeclIds : resetOf(i)
\* what is memoized stays: a type or initializer that a query returns
\* without resolving is the one it returned before
memoKept(i) ==
    /\ declType[i] # <<>> => declType'[i] = declType[i]
    /\ declInitializer[i] # "null" => declInitializer'[i] = declInitializer[i]

\* C21: between resets a declared-type record resolves its type and its
\* initializer at most once and returns the same type and initializer
\* objects on every query; after any reset of the stored type, dimensions
\* or initializer, neither the previously memoized type nor the previously
\* bound initializer is returned again without being resolved anew: the
\* reset leaves no type and no initializer that a query would return.
ResetForgetsTypeAndInitializer ==
    [][\A i \in DeclIds :
           IF resetOf(i) THEN declType'[i] = <<>> /\ declInitializer'[i] = "null"
           ELSE someReset \/ memoKept(i)]_vars

\* between resets what is memoized stays; a reset leaves no type; it leaves
\* no initializer or the one that was bound before, and the latter when it
\* has replaced the dimension syntax
ResetForgetsTypeButDimensionsKeepInitializer ==
    [][\A i \in DeclIds :
           IF resetOf(i)
           THEN /\ declType'[i] = <<>>
                /\ IF decls'[i] # decls[i]
                   THEN declInitializer'[i] = declInitializer[i]
                   ELSE declInitializer'[i] \in {"null", declInitializer[i]}
           ELSE someReset \/ memoKept(i)]_vars

\* record 1, `int p = <literal>`, has got dimensions after its initializer
\* was bound for the type int, and its type has been resolved again: the
\* type is an array, and the initializer is still the one bound before
InitializerOutlivesDimensions ==
    /\ decls[1] = [implicit |-> FALSE, init |-> Literal, dimensions |-> Syntax("dim", 1)]
    /\ declStack = <<>>
    /\ declType[1] = <<withDimensions(IntType, Syntax("dim", 1))>>
    /\ declInitializer[1] = "ok"
\* the array of interfaces that pass n of the slicing loop indexes
slicedRange(n) == connected.dims[n]

\* C27: when an interface-array connection is sliced across an instance
\* array, the element index computed at each dimension lies within
\* 0 .. elements.size()-1 of the interface array at that level, for every
\* combination of ascending or descending ranges and of zero or non-zero
\* lower bounds whose dimension sizes are equal.
SliceIndexWithinElements ==
    \A n \in 1 .. Len(indices) : indices[n] \in 0 .. width(slicedRange(n)) - 1

\* the index lies within the elements of an array of interfaces declared
\* descending or with the lower bound 0; for an array declared ascending
\* with another lower bound it lies within the array's range, lower .. upper
SliceIndexWithinElementsOrRange ==
    \A n \in 1 .. Len(indices) :
        IF isLittleEndian(slicedRange(n)) \/ lower(slicedRange(n)) = 0
        THEN indices[n] \in 0 .. width(slicedRange(n)) - 1
        ELSE indices[n] \in lower(slicedRange(n)) .. upper(slicedRange(n))

\* the instance inst[0] of `m inst [1:0] (ifs)` is connected to its slice
\* of `I ifs [1:2] ()`: the index is 2, and ifs has the elements 0 and 1
SliceIndexBeyondElements ==
    /\ instanceDims = <<ConstantRange(1, 0)>> /\ arrayPath = <<0>>
    /\ connected.dims = <<ConstantRange(1, 2)>>
    /\ indices = <<2>>
=============================================================================
